---- MODULE Spec2Model ----
(***************************************************************************)
(* State-machine model of the sync engine of personal-context:             *)
(*   sync/pull.py          pull_from_upstream (the reconciler)             *)
(*   sync/orchestrator.py  SyncOrchestrator: sync_collection, full_resync, *)
(*                         start, stop and the background loop             *)
(*   server.py             the add_content tool                            *)
(*   search/hybrid.py      hybrid_search                                   *)
(*   upstream/base.py      the UpstreamClient port (list / get / create)   *)
(*   db/schema.py          the content, content_vec, tags, content_tags,   *)
(*                         sync_state and sync_log tables                  *)
(*                                                                         *)
(* The program is one asyncio event loop: a coroutine runs without         *)
(* interruption between two awaits.  The awaits of the modelled code are   *)
(* list_documents, get_document, embed and create_document, the two waits  *)
(* of the background loop, and the wait of stop() for the task.  Every     *)
(* action below is therefore "one await completes, and the code runs on to *)
(* the next await (or to its return)".                                     *)
(***************************************************************************)
EXTENDS Integers, Sequences, FiniteSets, TLC

VARIABLES
    upd,            \* upstream: doc id -> updated_at (0: the document does not exist yet)
    owner,          \* the provider that holds the documents of collection "A"
    now,            \* wall clock (time.time(), unixepoch('now'))
    content,        \* table content: a set of rows
    content_vec,    \* table content_vec: a set of rows [content_id, embedding]
    sync_log,       \* table sync_log: the rows in insertion order
    sync_state,     \* table sync_state: collection_id -> row, or NoRow
    seq,            \* sqlite_sequence of content: the last AUTOINCREMENT id given out
    call,           \* per task: the frame of its sync_collection / pull_from_upstream call
    resync,         \* the frame of the full_resync call
    wipes,          \* number of full_resync wipes so far
    observe,        \* whether the history fields of the frames are recorded
    tags,           \* table tags: a set of rows [id, name]
    content_tags,   \* table content_tags: a set of rows [content_id, tag_id]
    tag_seq,        \* sqlite_sequence of tags
    adding,         \* the frame of the add_content call
    settings,       \* config: sync_collections, outline_collection_id, prompts_collection_id
    task,           \* SyncOrchestrator._task: the handle of the background task, or NoTask
    stop_event,     \* SyncOrchestrator._stop_event
    loops,          \* per background task: the frame of its _sync_loop coroutine
    stop_call,      \* the frame of the stop() call
    search          \* the last hybrid_search call: what the store held for it, and its result

vars == <<upd, owner, now, content, content_vec, sync_log, sync_state, seq, call, resync, wipes,
          observe, tags, content_tags, tag_seq, adding, settings, task, stop_event, loops,
          stop_call, search>>

----------------------------------------------------------------------------
(* Bounds of the model *)

\* timestamps range over 1..MaxTime; the clock advances with each upstream change
MaxTime == 2
\* page size of the reconciler (pull.py:60 sets 100; the model pages by a smaller size)
PageLimit == 2
\* full_resync calls in one behaviour
MaxWipes == 1

DocIds == {"d1", "d2", "d3"}
Collections == {"A", "B"}
Tasks == {"t1", "t2"}
\* the background tasks start() can create
LoopIds == {"l1", "l2"}

\* SQL NULL / Python None for numbers, and for text
NULL == 0
NoText == ""

----------------------------------------------------------------------------
(* upstream/registry.py and main.py: the registered providers, in registration order *)

Registry == <<"outline", "trilium">>

Registered == {Registry[i] : i \in DOMAIN Registry}

\* names a caller may pass to sync_collection; "notion" is not registered
ProviderNames == Registered \cup {"notion"}

\* UpstreamRegistry.get: the client, or None
RegistryGet(provider_name) == provider_name \in Registered

----------------------------------------------------------------------------
(* upstream/base.py: the UpstreamClient port *)

\* every document of the model lives in collection "A" of the owning provider
HomeCollection(d) == "A"

\* UpstreamDocument as get_document returns it now
UpstreamDocument(d) == [id |-> d, updated_at |-> upd[d], content |-> <<d, upd[d]>>]

NoUpstreamDocument == [id |-> NoText, updated_at |-> NULL, content |-> <<>>]

\* The documents provider p holds in collection c
Holds(p, c) == {d \in DocIds : upd[d] # 0 /\ p = owner /\ HomeCollection(d) = c}

\* position of a document id among equal timestamps (any fixed order)
Rank(d) == CASE d = "d1" -> 1 [] d = "d2" -> 2 [] OTHER -> 3

\* d comes before e in a listing sorted by updated_at DESC
Before(d, e) == upd[d] > upd[e] \/ (upd[d] = upd[e] /\ Rank(d) < Rank(e))

RECURSIVE SortDesc(_)
SortDesc(S) ==
    IF S = {} THEN <<>>
    ELSE LET first == CHOOSE d \in S : \A e \in S \ {d} : Before(d, e)
         IN <<[id |-> first, updated_at |-> upd[first]]>> \o SortDesc(S \ {first})

\* the whole listing of collection c at provider p: summaries, newest first
Listing(p, c) == SortDesc(Holds(p, c))

\* list_documents(collection_id, limit, offset): documents[offset : offset + limit]
PageDocuments(p, c, lim, offset) ==
    LET all == Listing(p, c)
        lo == offset + 1
        hi == IF offset + lim < Len(all) THEN offset + lim ELSE Len(all)
    IN IF lo > hi THEN <<>> ELSE SubSeq(all, lo, hi)

\* has_more as a provider may report it: exactly (trilium.py:176), or, at the end
\* of the listing, a next page that turns out empty (outline.py:188, nextPath)
HasMoreChoices(p, c, lim, offset) ==
    IF offset + lim < Len(Listing(p, c)) THEN {TRUE} ELSE {FALSE, TRUE}

----------------------------------------------------------------------------
(* db/schema.py: rows *)

NoRow == [status |-> "none", last_pull_at |-> NULL, error_message |-> <<>>]

\* the result of SELECT ... FROM content WHERE upstream_doc_id = ? when no row matches
NoDoc == [id |-> 0, source_type |-> NoText, source_id |-> NoText, collection_id |-> NoText,
          upstream_doc_id |-> NoText, upstream_updated_at |-> NULL, content |-> <<>>]

\* fetchone(): the first matching row (the index orders equal keys by rowid)
SelectByUpstreamDocId(cont, d) ==
    LET S == {r \in cont : r.upstream_doc_id = d}
    IN IF S = {} THEN NoDoc ELSE CHOOSE r \in S : \A q \in S : r.id <= q.id

\* EmbeddingClient.embed: the vector of a text
Embed(text) == <<"vec", text>>

Store == [content |-> content, content_vec |-> content_vec, sync_log |-> sync_log,
          sync_state |-> sync_state, seq |-> seq,
          tags |-> tags, content_tags |-> content_tags, tag_seq |-> tag_seq]

----------------------------------------------------------------------------
(* frames *)

\* what the pass before this one left behind (history, read by the properties):
\* ran: the task's previous call was a pass of the same collection and provider;
\* ok: it collected no errors; full: it ran without a checkpoint; left: the
\* last_pull_at it left in sync_state; failed: the documents whose get_document
\* or embed call raised in it
NoPrev == [ran |-> FALSE, ok |-> FALSE, full |-> FALSE, left |-> NULL, failed |-> {}]

\* what a call returned: a PullResult (kind "pull") or a SyncResult (kind "sync");
\* has_result: SyncResult.result is not None.  The other fields are history of the
\* pass: last_pull_at, the checkpoint it ran with; requested, the offsets
\* list_documents was called with; fetched, the documents get_document was called
\* for; failures, the calls that raised; had_local, the listed documents that had
\* a local row when it started; clean, no upstream change and no wipe while it
\* ran; prev, the pass before it
NoResult == [kind |-> "none", coll |-> NoText, prov |-> NoText, success |-> FALSE,
             error |-> NoText, has_result |-> FALSE,
             created |-> 0, updated |-> 0, skipped |-> 0, errors |-> <<>>,
             last_pull_at |-> NULL, requested |-> <<>>, fetched |-> {}, failures |-> <<>>,
             had_local |-> {}, clean |-> FALSE, prev |-> NoPrev]

IdleFrame == [pc |-> "idle", via |-> "none", coll |-> NoText, prov |-> NoText,
              last_pull_at |-> NULL, offset |-> 0, page |-> <<>>, has_more |-> FALSE,
              idx |-> 0, local_id |-> 0, full_doc |-> NoUpstreamDocument,
              created |-> 0, updated |-> 0, skipped |-> 0, errors |-> <<>>,
              requested |-> <<>>, fetched |-> {}, failures |-> <<>>, had_local |-> {},
              clean |-> FALSE, started |-> NULL,
              prev |-> NoPrev, ret |-> NoResult]

\* the frame of full_resync; attempts and failed are history: the sync_collection
\* calls it made with their results, and whether a provider or embedding call
\* of its passes raised; raised is the exception the call itself ended with
NoResync == [pc |-> "idle", targets |-> <<>>, ci |-> 0, pi |-> 0,
             total_created |-> 0, total_updated |-> 0, total_errors |-> 0,
             returned |-> FALSE, attempts |-> <<>>, failed |-> FALSE, raised |-> NoText]

----------------------------------------------------------------------------
(* sync/pull.py: pull_from_upstream *)

\* an early termination that lets a document through whose timestamp equals the checkpoint
EarlyTerminationStrict(last_pull_at, upstream_updated_at) ==
    last_pull_at # NULL /\ upstream_updated_at < last_pull_at

\* pull.py:80  if last_pull_at and upstream_updated_at <= last_pull_at
EarlyTermination(last_pull_at, upstream_updated_at) ==
    last_pull_at # NULL /\ upstream_updated_at <= last_pull_at

\* a comparison that leaves alone a row without upstream_updated_at
NeedsUpdateIgnoresNull(local_doc, upstream_updated_at) ==
    \/ local_doc.id = 0
    \/ /\ local_doc.upstream_updated_at # NULL
       /\ upstream_updated_at > local_doc.upstream_updated_at

\* a comparison that also re-fetches a document whose timestamp did not move
NeedsUpdateOrEqual(local_doc, upstream_updated_at) ==
    \/ local_doc.id = 0
    \/ local_doc.upstream_updated_at = NULL
    \/ upstream_updated_at >= local_doc.upstream_updated_at

\* pull.py:91-95  needs_update
NeedsUpdate(local_doc, upstream_updated_at) ==
    \/ local_doc.id = 0
    \/ local_doc.upstream_updated_at = NULL
    \/ upstream_updated_at > local_doc.upstream_updated_at

\* a reconciler without the corrective write
BackfillNever(cont, local_doc, collection_id) == cont

\* pull.py:97-101  UPDATE content SET collection_id = ? WHERE id = ?
BackfillCollection(cont, local_doc, collection_id) ==
    IF local_doc.id # 0 /\ local_doc.collection_id = NoText
    THEN {IF r.id = local_doc.id THEN [r EXCEPT !.collection_id = collection_id] ELSE r : r \in cont}
    ELSE cont

\* pull.py:136 / 147: the entries of the errors list
DocError(doc_id) == <<"Failed to sync", doc_id>>
PageError(offset) == <<"Failed to fetch documents at offset", offset>>

\* a checkpoint that is the greatest upstream timestamp the collection's rows hold
WriteCheckpointMaxSeen(st, collection_id) ==
    LET seen == {r.upstream_updated_at : r \in {x \in st.content : x.collection_id = collection_id}}
    IN [st EXCEPT !.sync_state[collection_id] =
          [status |-> "idle",
           last_pull_at |-> IF seen = {} THEN NULL
                            ELSE CHOOSE m \in seen : \A x \in seen : x <= m,
           error_message |-> <<>>]]

\* pull.py:150-157  INSERT OR REPLACE INTO sync_state (collection_id, last_pull_at, status)
WriteCheckpoint(st, collection_id) ==
    [st EXCEPT !.sync_state[collection_id] =
        [status |-> "idle", last_pull_at |-> now, error_message |-> <<>>]]

\* pull.py:161  PullResult(created, updated, skipped, errors)
PullResult(f) ==
    LET r == [NoResult EXCEPT !.kind = "pull", !.coll = f.coll, !.prov = f.prov,
                              !.success = (f.errors = <<>>), !.has_result = TRUE,
                              !.created = f.created, !.updated = f.updated,
                              !.skipped = f.skipped, !.errors = f.errors,
                              !.clean = f.clean]
    IN IF ~observe THEN r
       ELSE [r EXCEPT !.last_pull_at = f.last_pull_at,
                      !.requested = f.requested, !.fetched = f.fetched,
                      !.failures = f.failures, !.had_local = f.had_local, !.prev = f.prev]

\* orchestrator.py:179  "; ".join(result.errors[:3])
ErrorMessage(errors) == IF Len(errors) <= 3 THEN errors ELSE SubSeq(errors, 1, 3)

\* a status write that ignores the errors
WriteStatusAlwaysIdle(st, collection_id, errors) ==
    IF st.sync_state[collection_id].status = "none" THEN st
    ELSE [st EXCEPT !.sync_state[collection_id].status = "idle",
                    !.sync_state[collection_id].error_message = <<>>]

\* orchestrator.py:174-187  UPDATE sync_state SET status = ..., error_message = ... WHERE collection_id = ?
WriteStatus(st, collection_id, errors) ==
    IF st.sync_state[collection_id].status = "none" THEN st
    ELSE IF errors # <<>>
    THEN [st EXCEPT !.sync_state[collection_id].status = "error",
                    !.sync_state[collection_id].error_message = ErrorMessage(errors)]
    ELSE [st EXCEPT !.sync_state[collection_id].status = "idle",
                    !.sync_state[collection_id].error_message = <<>>]

\* a result that reports success whatever the pass collected
SyncResultAlwaysSuccess(f) == [PullResult(f) EXCEPT !.kind = "sync", !.success = TRUE]

\* orchestrator.py:195-199  SyncResult(success=len(result.errors) == 0, result=result)
SyncResult(f) == [PullResult(f) EXCEPT !.kind = "sync"]

\* orchestrator.py:129-133 and 143-147: the two immediate returns
Rejected(collection_id, provider_name, error) ==
    [NoResult EXCEPT !.kind = "sync", !.coll = collection_id, !.prov = provider_name,
                     !.error = error]

\* sync_collection without its guard
AlreadySyncingNever(st, collection_id) == FALSE

\* orchestrator.py:142  if state and state[0] == "syncing"
AlreadySyncing(st, collection_id) == st.sync_state[collection_id].status = "syncing"

\* sync_collection marking the collection with an UPDATE, which keeps the checkpoint
MarkSyncingKeepsCheckpoint(st, collection_id) ==
    [st EXCEPT !.sync_state[collection_id].status = "syncing"]

\* orchestrator.py:150-155  INSERT OR REPLACE INTO sync_state (collection_id, status, updated_at):
\* REPLACE deletes the row and inserts a new one, whose last_pull_at and
\* error_message take the column default, NULL
MarkSyncing(st, collection_id) ==
    [st EXCEPT !.sync_state[collection_id] =
        [status |-> "syncing", last_pull_at |-> NULL, error_message |-> <<>>]]

\* pull.py:53-61: the locals of a pass that starts; started is history, the
\* wall-clock time at which it starts
PullEnter(collection_id, provider_name, last_pull_at, via) ==
    [IdleFrame EXCEPT !.pc = "list", !.via = via, !.coll = collection_id,
                      !.prov = provider_name, !.last_pull_at = last_pull_at,
                      !.requested = IF observe THEN <<0>> ELSE <<>>, !.clean = TRUE,
                      !.started = now]

\* history: what the starting pass of (collection_id, provider_name) finds
WithHistory(f, ret, cont) ==
    IF f.pc = "idle" \/ ~observe THEN f
    ELSE [f EXCEPT
            !.had_local = {d \in Holds(f.prov, f.coll) : SelectByUpstreamDocId(cont, d).id # 0},
            !.prev = IF ret.has_result /\ ret.coll = f.coll /\ ret.prov = f.prov
                     THEN [ran |-> TRUE, ok |-> ret.errors = <<>>, full |-> ret.last_pull_at = NULL,
                           left |-> sync_state[f.coll].last_pull_at,
                           failed |-> {ret.failures[i][2] :
                                         i \in {j \in DOMAIN ret.failures :
                                                  ret.failures[j][1] \in {"get", "embed"}}}]
                     ELSE NoPrev]

\* sync_collection marking the collection before it validates the call
SyncCollectionEnterMarksFirst(st, collection_id, provider_name, via) ==
    LET st1 == MarkSyncing(st, collection_id)
    IN IF ~RegistryGet(provider_name)
       THEN [f |-> [IdleFrame EXCEPT !.ret = Rejected(collection_id, provider_name, "Provider not registered")],
             st |-> st1]
       ELSE IF AlreadySyncing(st, collection_id)
       THEN [f |-> [IdleFrame EXCEPT !.ret = Rejected(collection_id, provider_name, "Sync already in progress")],
             st |-> st1]
       ELSE [f |-> PullEnter(collection_id, provider_name, st1.sync_state[collection_id].last_pull_at, via),
             st |-> st1]

\* orchestrator.py:124-172  sync_collection up to its first await (list_documents
\* of the reconciler), or to its return when the call is rejected
SyncCollectionEnter(st, collection_id, provider_name, via) ==
    IF ~RegistryGet(provider_name)
    THEN [f |-> [IdleFrame EXCEPT !.ret = Rejected(collection_id, provider_name, "Provider not registered")],
          st |-> st]
    ELSE IF AlreadySyncing(st, collection_id)
    THEN [f |-> [IdleFrame EXCEPT !.ret = Rejected(collection_id, provider_name, "Sync already in progress")],
          st |-> st]
    ELSE LET st1 == MarkSyncing(st, collection_id)
             \* orchestrator.py:158-162
             last_pull_at == st1.sync_state[collection_id].last_pull_at
         IN [f |-> PullEnter(collection_id, provider_name, last_pull_at, via), st |-> st1]

----------------------------------------------------------------------------
(* sync/orchestrator.py: the provider loop of full_resync *)

\* orchestrator.py:268-290: what full_resync does with the SyncResult r of
\* (targets[ci], Registry[pi]): break to the next collection, or go on to the
\* next provider
ResyncAccount(rs, r) ==
    IF r.success /\ r.has_result
    THEN [rs EXCEPT !.total_created = @ + r.created, !.total_updated = @ + r.updated,
                    !.total_errors = @ + Len(r.errors), !.ci = @ + 1, !.pi = 1]
    ELSE IF r.has_result /\ r.created = 0 /\ r.updated = 0
    THEN [rs EXCEPT !.pi = @ + 1]
    ELSE [rs EXCEPT !.total_errors = @ + 1, !.pi = @ + 1]

\* history: the call of sync_collection that returned r
Attempted(rs, r) ==
    [rs EXCEPT !.attempts = Append(@, [coll |-> r.coll, prov |-> r.prov, success |-> r.success,
                                       has_result |-> r.has_result, created |-> r.created,
                                       updated |-> r.updated, errors |-> Len(r.errors)])]

\* orchestrator.py:260-316: run the loops on to the next await (the reconciler's
\* list_documents of the next sync_collection), or to the return
RECURSIVE ResyncRun(_, _)
ResyncRun(rs, st) ==
    IF rs.ci > Len(rs.targets)
    THEN [f |-> IdleFrame, st |-> st, rs |-> [rs EXCEPT !.pc = "idle", !.returned = TRUE]]
    ELSE IF rs.pi > Len(Registry)
    THEN ResyncRun([rs EXCEPT !.ci = @ + 1, !.pi = 1], st)
    ELSE LET e == SyncCollectionEnter(st, rs.targets[rs.ci], Registry[rs.pi], "resync")
         IN IF e.f.pc = "idle"
            THEN ResyncRun(ResyncAccount(Attempted(rs, e.f.ret), e.f.ret), e.st)
            ELSE [f |-> e.f, st |-> e.st, rs |-> rs]

\* a wipe that leaves the tags and their links
ClearAllButTags(st) ==
    [st EXCEPT !.content_vec = {}, !.content = {}, !.sync_log = <<>>,
               !.sync_state = [c \in Collections |-> NoRow]]

\* orchestrator.py:242-248: the first k statements of the wipe (the six DELETEs
\* and the commit) have run on the shared connection when the next one raises
PartialClear(st, k) ==
    [st EXCEPT !.content_tags = IF k >= 1 THEN {} ELSE @,
               !.tags = IF k >= 2 THEN {} ELSE @,
               !.content_vec = IF k >= 3 THEN {} ELSE @,
               !.content = IF k >= 4 THEN {} ELSE @,
               !.sync_log = IF k >= 5 THEN <<>> ELSE @,
               !.sync_state = IF k >= 6 THEN [c \in Collections |-> NoRow] ELSE @]

\* orchestrator.py:241-249: the six DELETEs (sqlite_sequence is not reset)
ClearAllLocalData(st) ==
    [st EXCEPT !.content_tags = {}, !.tags = {}, !.content_vec = {}, !.content = {},
               !.sync_log = <<>>, !.sync_state = [c \in Collections |-> NoRow]]

----------------------------------------------------------------------------
(* config.py, SyncOrchestrator.__init__ and server.py: what exists beside the *)
(* sync calls                                                                  *)

\* config.py:52-59, 90-93: the defaults are "" and []; the deployment modelled by
\* default names collection "A" as its outline collection
DefaultSettings ==
    [sync_collections |-> <<>>, outline_collection_id |-> "A", prompts_collection_id |-> NoText,
     upstream_provider |-> "outline"]

\* orchestrator.py:47  self._task = None
NoTask == "none"

\* a background task that does not exist: pc is "none"; otherwise the position of
\* its _sync_loop coroutine; ci, pi are the positions of the two for loops;
\* attempts is history: the sync_collection calls of the current round of the
\* while loop, as pairs <<collection_id, provider_name>>; errored is history too:
\* the collections for which a pass of the current round collected errors
NoLoop == [pc |-> "none", collections |-> <<>>, ci |-> 0, pi |-> 0, timer |-> FALSE,
           attempts |-> <<>>, errored |-> {}]

\* search/hybrid.py: no hybrid_search call was made
NoSearch == [limit |-> 0, vec_index |-> <<>>, fts_index |-> <<>>, returned |-> FALSE,
             results |-> <<>>]

\* server.py:808-917: no add_content call in flight
NoAdd == [pc |-> "idle", doc |-> NoText, collection_id |-> NoText, provider_name |-> NoText,
          tag_names |-> <<>>, upstream_doc_id |-> NoText]

\* get_collections_to_sync appending the prompts collection without looking
\* for a duplicate
GetCollectionsToSyncNoDedup(collection_ids) ==
    IF collection_ids # <<>> THEN collection_ids
    ELSE IF settings.sync_collections # <<>> THEN settings.sync_collections
    ELSE (IF settings.outline_collection_id # NoText
          THEN <<settings.outline_collection_id>> ELSE <<>>)
         \o (IF settings.prompts_collection_id # NoText
             THEN <<settings.prompts_collection_id>> ELSE <<>>)

\* orchestrator.py:51-81  get_collections_to_sync; the empty list stands for
\* the ValueError (every list it returns is non-empty)
GetCollectionsToSync(collection_ids) ==
    IF collection_ids # <<>> THEN collection_ids
    ELSE IF settings.sync_collections # <<>> THEN settings.sync_collections
    ELSE LET outline == IF settings.outline_collection_id # NoText
                        THEN <<settings.outline_collection_id>> ELSE <<>>
         IN IF /\ settings.prompts_collection_id # NoText
               /\ \A i \in DOMAIN outline : outline[i] # settings.prompts_collection_id
            THEN Append(outline, settings.prompts_collection_id)
            ELSE outline

\* for loops that do not look at the stop signal
RECURSIVE LoopRunIgnoresStop(_, _, _)
LoopRunIgnoresStop(lp, st, f0) ==
    IF lp.ci > Len(lp.collections)
    THEN [lp |-> [lp EXCEPT !.pc = "wait", !.timer = FALSE], f |-> f0, st |-> st]
    ELSE IF lp.pi > Len(Registry)
    THEN LoopRunIgnoresStop([lp EXCEPT !.ci = @ + 1, !.pi = 1], st, f0)
    ELSE LET e == SyncCollectionEnter(st, lp.collections[lp.ci], Registry[lp.pi], "sync")
             lp1 == [lp EXCEPT !.attempts = Append(@, <<lp.collections[lp.ci], Registry[lp.pi]>>)]
         IN IF e.f.pc = "idle"
            THEN LoopRunIgnoresStop([lp1 EXCEPT !.pi = @ + 1], e.st, e.f)
            ELSE [lp |-> [lp1 EXCEPT !.pc = "sync"], f |-> e.f, st |-> e.st]

\* orchestrator.py:331-355: the two for loops of _sync_loop from position
\* (ci, pi) on to the next await: the reconciler's list_documents of the next
\* sync_collection, or the wait for the next interval; f0 is the frame the last
\* call left
RECURSIVE LoopRun(_, _, _)
LoopRun(lp, st, f0) ==
    IF stop_event \/ lp.ci > Len(lp.collections)
    THEN [lp |-> [lp EXCEPT !.pc = "wait", !.timer = FALSE], f |-> f0, st |-> st]
    ELSE IF lp.pi > Len(Registry)
    THEN LoopRun([lp EXCEPT !.ci = @ + 1, !.pi = 1], st, f0)
    ELSE LET e == SyncCollectionEnter(st, lp.collections[lp.ci], Registry[lp.pi], "sync")
             lp1 == [lp EXCEPT !.attempts = Append(@, <<lp.collections[lp.ci], Registry[lp.pi]>>)]
         IN IF e.f.pc = "idle"
            THEN LoopRun([lp1 EXCEPT !.pi = @ + 1], e.st, e.f)
            ELSE [lp |-> [lp1 EXCEPT !.pc = "sync"], f |-> e.f, st |-> e.st]

\* a while loop that syncs the first configured collection only
LoopTopFirstCollectionOnly(lp, st, f0) ==
    IF stop_event
    THEN [lp |-> [lp EXCEPT !.pc = "done"], f |-> f0, st |-> st]
    ELSE LET collections == GetCollectionsToSync(<<>>)
         IN IF collections = <<>>
            THEN [lp |-> [lp EXCEPT !.pc = "sleep", !.timer = FALSE, !.attempts = <<>>,
                              !.errored = {}],
                  f |-> f0, st |-> st]
            ELSE LoopRun([lp EXCEPT !.collections = <<Head(collections)>>, !.ci = 1, !.pi = 1,
                                    !.attempts = <<>>, !.errored = {}], st, f0)

\* orchestrator.py:320-329: the head of the while loop
LoopTop(lp, st, f0) ==
    IF stop_event
    THEN [lp |-> [lp EXCEPT !.pc = "done"], f |-> f0, st |-> st]
    ELSE LET collections == GetCollectionsToSync(<<>>)
         IN IF collections = <<>>
            THEN [lp |-> [lp EXCEPT !.pc = "sleep", !.timer = FALSE, !.attempts = <<>>,
                              !.errored = {}],
                  f |-> f0, st |-> st]
            ELSE LoopRun([lp EXCEPT !.collections = collections, !.ci = 1, !.pi = 1,
                                    !.attempts = <<>>, !.errored = {}], st, f0)

----------------------------------------------------------------------------
(* sync/pull.py: the end of a pass, and the loop over a page *)

\* pull.py:150-161 and orchestrator.py:174-199: the checkpoint write, the return
\* of the reconciler, and what its caller does with the result
Finish(f, st, rs) ==
    LET st1 == WriteCheckpoint(st, f.coll)
    IN IF f.via = "direct"
       THEN [f |-> [IdleFrame EXCEPT !.ret = PullResult(f)], st |-> st1, rs |-> rs]
       ELSE LET st2 == WriteStatus(st1, f.coll, f.errors)
            IN IF f.via = "sync"
               THEN [f |-> [IdleFrame EXCEPT !.ret = SyncResult(f)], st |-> st2, rs |-> rs]
               ELSE ResyncRun(ResyncAccount(Attempted(rs, SyncResult(f)), SyncResult(f)), st2)

\* a reconciler that stops after its first page
EndOfPageStops(f, st, rs, should_continue) ==
    Finish([f EXCEPT !.offset = @ + PageLimit], st, rs)

\* a reconciler that asks for the same page again
EndOfPageSameOffset(f, st, rs, should_continue) ==
    IF ~f.has_more \/ ~should_continue
    THEN Finish(f, st, rs)
    ELSE [f |-> [f EXCEPT !.pc = "list", !.page = <<>>, !.has_more = FALSE, !.idx = 0,
                          !.local_id = 0, !.full_doc = NoUpstreamDocument,
                          !.requested = IF observe THEN Append(@, f.offset) ELSE @],
          st |-> st, rs |-> rs]

\* pull.py:139-144 and the loop condition at 63: after the for loop over the page
EndOfPage(f, st, rs, should_continue) ==
    LET f1 == [f EXCEPT !.offset = @ + PageLimit]
    IN IF ~f.has_more \/ ~should_continue
       THEN Finish(f1, st, rs)
       ELSE [f |-> [f1 EXCEPT !.pc = "list", !.page = <<>>, !.has_more = FALSE, !.idx = 0,
                              !.local_id = 0, !.full_doc = NoUpstreamDocument,
                              !.requested = IF observe THEN Append(@, f1.offset) ELSE @],
             st |-> st, rs |-> rs]

\* pull.py:75-109: the for loop from page[i] on, up to the next get_document
RECURSIVE Scan(_, _, _, _)
Scan(f, st, rs, i) ==
    IF i > Len(f.page) THEN EndOfPage(f, st, rs, TRUE)
    ELSE LET doc_summary == f.page[i]
         IN IF EarlyTermination(f.last_pull_at, doc_summary.updated_at)
            THEN EndOfPage(f, st, rs, FALSE)
            ELSE LET local_doc == SelectByUpstreamDocId(st.content, doc_summary.id)
                     st1 == [st EXCEPT !.content = BackfillCollection(@, local_doc, f.coll)]
                 IN IF ~NeedsUpdate(local_doc, doc_summary.updated_at)
                    THEN Scan([f EXCEPT !.skipped = @ + 1], st1, rs, i + 1)
                    ELSE [f |-> [f EXCEPT !.pc = "get", !.idx = i, !.local_id = local_doc.id,
                                          !.full_doc = NoUpstreamDocument,
                                          !.fetched = IF observe THEN @ \cup {doc_summary.id} ELSE @],
                          st |-> st1, rs |-> rs]

\* pull.py:176-202  _create_local_document after the embedding arrived; ok is
\* FALSE when the INSERT violates UNIQUE(source_type, source_id) (schema.py:63)
CreateLocalDocument(st, doc, collection_id, upstream_provider) ==
    IF \E r \in st.content : r.source_type = upstream_provider /\ r.source_id = doc.id
    THEN [ok |-> FALSE, st |-> st]
    ELSE LET content_id == st.seq + 1
         IN [ok |-> TRUE,
             st |-> [st EXCEPT
                !.seq = content_id,
                !.content = @ \cup {[id |-> content_id, source_type |-> upstream_provider,
                                     source_id |-> doc.id, collection_id |-> collection_id,
                                     upstream_doc_id |-> doc.id,
                                     upstream_updated_at |-> doc.updated_at,
                                     content |-> doc.content]},
                !.content_vec = @ \cup {[content_id |-> content_id,
                                         embedding |-> Embed(doc.content)]}]]

\* pull.py:216-233  _update_local_document after the embedding arrived
UpdateLocalDocument(st, content_id, doc, collection_id) ==
    [ok |-> TRUE,
     st |-> [st EXCEPT
        !.content = {IF r.id = content_id
                     THEN [r EXCEPT !.content = doc.content,
                                    !.upstream_updated_at = doc.updated_at,
                                    !.collection_id = collection_id]
                     ELSE r : r \in @},
        !.content_vec = {v \in @ : v.content_id # content_id}
                          \cup {[content_id |-> content_id, embedding |-> Embed(doc.content)]}]]

\* pull.py:129-133  INSERT INTO sync_log (collection_id, operation, upstream_doc_id)
LogOperation(st, collection_id, operation, doc_id) ==
    [st EXCEPT !.sync_log = Append(@, [collection_id |-> collection_id,
                                       operation |-> operation,
                                       upstream_doc_id |-> doc_id])]

\* pull.py:111-137: the document is written (or the write raises), then the loop goes on
WriteDocument(f, st, rs) ==
    LET doc_id == f.page[f.idx].id
        w == IF f.local_id = 0
             THEN CreateLocalDocument(st, f.full_doc, f.coll, f.prov)
             ELSE UpdateLocalDocument(st, f.local_id, f.full_doc, f.coll)
    IN IF ~w.ok
       THEN Scan([f EXCEPT !.errors = Append(@, DocError(doc_id))], st, rs, f.idx + 1)
       ELSE Scan([f EXCEPT !.created = IF f.local_id = 0 THEN @ + 1 ELSE @,
                           !.updated = IF f.local_id = 0 THEN @ ELSE @ + 1],
                 LogOperation(w.st, f.coll, IF f.local_id = 0 THEN "create" ELSE "update", doc_id),
                 rs, f.idx + 1)

----------------------------------------------------------------------------
(* the actions: one await completes and the coroutine runs on to its next await *)

\* the frame of full_resync's own sync_collection calls
ResyncTask == "fr"

Frames == Tasks \cup {ResyncTask} \cup LoopIds

\* history: a call of task t's pass raised
Failed(t, what) ==
    [call[t] EXCEPT !.failures = IF observe THEN Append(@, what) ELSE @]

ResyncFailed(t) == IF t = ResyncTask THEN [resync EXCEPT !.failed = TRUE] ELSE resync

\* the tables, and what orchestrator and server keep beside the frames
tables == <<content, content_vec, sync_log, sync_state, seq, tags, content_tags, tag_seq>>

background == <<settings, task, stop_event, stop_call, search>>

\* the new values of the tables
Write(st) ==
    /\ content' = st.content
    /\ content_vec' = st.content_vec
    /\ sync_log' = st.sync_log
    /\ sync_state' = st.sync_state
    /\ seq' = st.seq
    /\ tags' = st.tags
    /\ content_tags' = st.content_tags
    /\ tag_seq' = st.tag_seq

\* the new values of the tables, of task t's frame and of the full_resync frame;
\* when the call was made by a background task and has returned, its
\* _sync_loop runs on (orchestrator.py:341-343)
Apply(t, res) ==
    IF t \in LoopIds /\ res.f.pc = "idle"
    THEN LET r == LoopRun([loops[t] EXCEPT !.pi = @ + 1,
                                           !.errored = IF res.f.ret.errors # <<>>
                                                       THEN @ \cup {res.f.ret.coll} ELSE @],
                          res.st, res.f)
         IN /\ call' = [call EXCEPT ![t] = r.f]
            /\ Write(r.st)
            /\ resync' = res.rs
            /\ loops' = [loops EXCEPT ![t] = r.lp]
    ELSE /\ call' = [call EXCEPT ![t] = res.f]
         /\ Write(res.st)
         /\ resync' = res.rs
         /\ UNCHANGED loops

\* a caller (the background loop, a request handler) calls sync_collection
StartSync(t, collection_id, provider_name) ==
    /\ call[t].pc = "idle"
    /\ LET e == SyncCollectionEnter(Store, collection_id, provider_name, "sync")
       IN Apply(t, [f |-> WithHistory(e.f, call[t].ret, content), st |-> e.st, rs |-> resync])
    /\ UNCHANGED <<upd, owner, now, wipes, observe, adding, background>>

\* a caller (a test, a script) calls the reconciler itself, with a checkpoint of its choice
StartPull(t, collection_id, provider_name, last_pull_at) ==
    /\ call[t].pc = "idle"
    /\ Apply(t, [f |-> WithHistory(PullEnter(collection_id, provider_name, last_pull_at, "direct"),
                                   call[t].ret, content),
                 st |-> Store, rs |-> resync])
    /\ UNCHANGED <<upd, owner, now, wipes, observe, adding, background>>

\* pull.py:66-73  list_documents returns a page
ListDone(t, has_more) ==
    /\ call[t].pc = "list"
    /\ has_more \in HasMoreChoices(call[t].prov, call[t].coll, PageLimit, call[t].offset)
    /\ LET page == PageDocuments(call[t].prov, call[t].coll, PageLimit, call[t].offset)
           f == [call[t] EXCEPT !.page = page, !.has_more = has_more]
       IN Apply(t, IF page = <<>> THEN Finish(f, Store, resync) ELSE Scan(f, Store, resync, 1))
    /\ UNCHANGED <<upd, owner, now, wipes, observe, adding, background>>

\* pull.py:146-148  list_documents raises
ListFail(t) ==
    /\ call[t].pc = "list"
    /\ Apply(t, Finish([Failed(t, <<"list", call[t].offset>>)
                           EXCEPT !.errors = Append(@, PageError(call[t].offset))],
                       Store, ResyncFailed(t)))
    /\ UNCHANGED <<upd, owner, now, wipes, observe, adding, background>>

\* pull.py:109  get_document returns; the coroutine goes on to embed (pull.py:173 / 214)
GetDone(t) ==
    /\ call[t].pc = "get"
    /\ call' = [call EXCEPT ![t].pc = "embed",
                            ![t].full_doc = UpstreamDocument(call[t].page[call[t].idx].id)]
    /\ UNCHANGED <<upd, owner, now, wipes, observe, tables, resync, adding, loops, background>>

\* a reconciler that asks for the document again when get_document raises
GetFailRetries(t) ==
    /\ call[t].pc = "get"
    /\ Apply(t, Scan([Failed(t, <<"get", call[t].page[call[t].idx].id>>)
                         EXCEPT !.errors = Append(@, DocError(call[t].page[call[t].idx].id))],
                     Store, ResyncFailed(t), call[t].idx))
    /\ UNCHANGED <<upd, owner, now, wipes, observe, adding, background>>

\* a reconciler that gives up the pass when get_document raises
GetFailAborts(t) ==
    /\ call[t].pc = "get"
    /\ Apply(t, Finish([Failed(t, <<"get", call[t].page[call[t].idx].id>>)
                           EXCEPT !.errors = Append(@, DocError(call[t].page[call[t].idx].id))],
                       Store, ResyncFailed(t)))
    /\ UNCHANGED <<upd, owner, now, wipes, observe, adding, background>>

\* pull.py:135-137  get_document raises
GetFail(t) ==
    /\ call[t].pc = "get"
    /\ Apply(t, Scan([Failed(t, <<"get", call[t].page[call[t].idx].id>>)
                         EXCEPT !.errors = Append(@, DocError(call[t].page[call[t].idx].id))],
                     Store, ResyncFailed(t), call[t].idx + 1))
    /\ UNCHANGED <<upd, owner, now, wipes, observe, adding, background>>

\* pull.py:173 / 214  embed returns, the document is written
EmbedDone(t) ==
    /\ call[t].pc = "embed"
    /\ Apply(t, WriteDocument(call[t], Store, resync))
    /\ UNCHANGED <<upd, owner, now, wipes, observe, adding, background>>

\* pull.py:135-137  embed raises
EmbedFail(t) ==
    /\ call[t].pc = "embed"
    /\ Apply(t, Scan([Failed(t, <<"embed", call[t].page[call[t].idx].id>>)
                         EXCEPT !.errors = Append(@, DocError(call[t].page[call[t].idx].id))],
                     Store, ResyncFailed(t), call[t].idx + 1))
    /\ UNCHANGED <<upd, owner, now, wipes, observe, adding, background>>

\* the upstream knowledge base: a document is created or edited; its updated_at
\* is the time of the change
UpstreamChange(d) ==
    /\ now < MaxTime
    /\ now' = now + 1
    /\ upd' = [upd EXCEPT ![d] = now + 1]
    /\ call' = [t \in Frames |-> IF call[t].pc = "idle" THEN call[t]
                                  ELSE [call[t] EXCEPT !.clean = FALSE]]
    /\ UNCHANGED <<owner, tables, resync, wipes, observe, adding, loops, background>>

\* full_resync going on to the syncs although the wipe raised
FullResyncWipeIgnored(collection_ids, k) ==
    /\ resync.pc = "idle"
    /\ wipes < MaxWipes
    /\ GetCollectionsToSync(collection_ids) # <<>>
    /\ wipes' = wipes + 1
    /\ LET rs == [NoResync EXCEPT !.pc = "running",
                                  !.targets = GetCollectionsToSync(collection_ids),
                                  !.ci = 1, !.pi = 1]
           res == ResyncRun(rs, PartialClear(Store, k))
       IN /\ call' = [call EXCEPT ![ResyncTask] = res.f]
          /\ Write(res.st)
          /\ resync' = res.rs
    /\ UNCHANGED <<upd, owner, now, observe, adding, loops, background>>

\* orchestrator.py:239-252  full_resync(collection_ids) when a statement of the
\* wipe raises after k of them have run: RuntimeError, nothing else is done
FullResyncWipeFails(collection_ids, k) ==
    /\ resync.pc = "idle"
    /\ wipes < MaxWipes
    /\ GetCollectionsToSync(collection_ids) # <<>>
    /\ wipes' = wipes + 1
    /\ Write(PartialClear(Store, k))
    /\ resync' = [NoResync EXCEPT !.raised = "RuntimeError"]
    /\ UNCHANGED <<upd, owner, now, call, observe, adding, loops, background>>

\* orchestrator.py:221-316  full_resync(collection_ids) up to its first await (or to
\* the ValueError of get_collections_to_sync, orchestrator.py:239)
FullResync(collection_ids) ==
    /\ resync.pc = "idle"
    /\ wipes < MaxWipes
    /\ IF GetCollectionsToSync(collection_ids) = <<>>
       THEN /\ resync' = [NoResync EXCEPT !.raised = "ValueError"]
            /\ UNCHANGED <<tables, call, wipes>>
       ELSE /\ wipes' = wipes + 1
            /\ LET rs == [NoResync EXCEPT !.pc = "running",
                                          !.targets = GetCollectionsToSync(collection_ids),
                                          !.ci = 1, !.pi = 1]
                   res == ResyncRun(rs, ClearAllLocalData(Store))
               IN /\ call' = [t \in Frames |->
                                IF t = ResyncTask THEN res.f
                                ELSE IF call[t].pc = "idle" THEN call[t]
                                ELSE [call[t] EXCEPT !.clean = FALSE]]
                  /\ Write(res.st)
                  /\ resync' = res.rs
    /\ UNCHANGED <<upd, owner, now, observe, adding, loops, background>>

----------------------------------------------------------------------------
(* sync/orchestrator.py: start, stop and the background task *)

\* the background tasks that have not finished
Alive == {l \in LoopIds : loops[l].pc \notin {"none", "done", "cancelled"}}

\* asyncio.create_task: the task object created next
NewTask == CHOOSE l \in LoopIds : loops[l].pc = "none"

\* start() creating a task whether or not one is running
StartAlways ==
    /\ \E l \in LoopIds : loops[l].pc = "none"
    /\ task' = NewTask
    /\ loops' = [loops EXCEPT ![NewTask] = [NoLoop EXCEPT !.pc = "new"]]
    /\ stop_event' = FALSE
    /\ UNCHANGED <<upd, owner, now, tables, call, resync, wipes, observe, adding, search, settings,
                   stop_call>>

\* orchestrator.py:83-91  start()
Start ==
    IF task # NoTask
    THEN UNCHANGED vars
    ELSE /\ \E l \in LoopIds : loops[l].pc = "none"
         /\ task' = NewTask
         /\ loops' = [loops EXCEPT ![NewTask] = [NoLoop EXCEPT !.pc = "new"]]
         /\ stop_event' = FALSE
         /\ UNCHANGED <<upd, owner, now, tables, call, resync, wipes, observe, adding, search, settings,
                        stop_call>>

\* the new values of a background task's frames and of the tables
LoopApply(l, r) ==
    /\ loops' = [loops EXCEPT ![l] = r.lp]
    /\ call' = [call EXCEPT ![l] = r.f]
    /\ Write(r.st)
    /\ UNCHANGED <<upd, owner, now, resync, wipes, observe, adding, background>>

\* orchestrator.py:318-343  the task created by start() runs for the first time
LoopBegin(l) ==
    /\ loops[l].pc = "new"
    /\ LoopApply(l, LoopTop(loops[l], Store, call[l]))

\* the sync_interval of the wait a background task is in elapses
Timer(l) ==
    /\ loops[l].pc \in {"wait", "sleep"}
    /\ ~loops[l].timer
    /\ loops' = [loops EXCEPT ![l].timer = TRUE]
    /\ UNCHANGED <<upd, owner, now, tables, call, resync, wipes, observe, adding, background>>

\* orchestrator.py:327 and 349-355: what ends the wait a background task is in:
\* asyncio.sleep returns when the interval has elapsed; wait_for returns when the
\* stop signal is set or the interval has elapsed
CanWake(l) ==
    \/ loops[l].pc = "sleep" /\ loops[l].timer
    \/ loops[l].pc = "wait" /\ (loops[l].timer \/ stop_event)

\* orchestrator.py:320-355  the wait ends and the while loop goes round
LoopWake(l) ==
    /\ CanWake(l)
    /\ LoopApply(l, LoopTop(loops[l], Store, call[l]))

\* stop() forgetting to clear the handle
StopDoneKeepsHandle ==
    /\ stop_call' = "idle"
    /\ UNCHANGED <<task, loops>>

\* orchestrator.py:111  self._task = None; the finished task is released
StopDone ==
    /\ stop_call' = "idle"
    /\ task' = NoTask
    /\ loops' = [loops EXCEPT ![task] = NoLoop]

\* orchestrator.py:93-103  stop() up to its await of the task
StopCall ==
    /\ stop_call = "idle"
    /\ IF task = NoTask
       THEN UNCHANGED vars
       ELSE /\ stop_event' = TRUE
            /\ stop_call' = "wait_for"
            /\ UNCHANGED <<upd, owner, now, tables, call, resync, wipes, observe, adding, search,
                           settings, task, loops>>

\* orchestrator.py:103, 111  the task finished within the 30 seconds
StopJoined ==
    /\ stop_call = "wait_for"
    /\ loops[task].pc = "done"
    /\ StopDone
    /\ UNCHANGED <<upd, owner, now, tables, call, resync, wipes, observe, adding, search, settings,
                   stop_event>>

\* orchestrator.py:103-106  the 30 seconds pass: wait_for cancels the task, whose
\* coroutine is thrown a CancelledError at its await; neither _sync_loop nor
\* sync_collection nor the reconciler catches it (they catch Exception)
StopTimeout ==
    /\ stop_call = "wait_for"
    /\ loops[task].pc # "done"
    /\ stop_call' = "cancel"
    /\ loops' = [loops EXCEPT ![task].pc = "cancelled"]
    /\ call' = [call EXCEPT ![task] = IdleFrame]
    /\ UNCHANGED <<upd, owner, now, tables, resync, wipes, observe, adding, search, settings, task,
                   stop_event>>

\* orchestrator.py:106-111  the cancellation is swallowed
StopReturn ==
    /\ stop_call = "cancel"
    /\ StopDone
    /\ UNCHANGED <<upd, owner, now, tables, call, resync, wipes, observe, adding, search, settings,
                   stop_event>>

Stop ==
    \/ StopCall
    \/ StopJoined
    \/ StopTimeout
    \/ StopReturn

----------------------------------------------------------------------------
(* search/hybrid.py: hybrid_search.  Scores are kept in thousandths (1.0 is  *)
(* 1000); the distances and ranks of the model make every score a whole       *)
(* number of thousandths, so the arithmetic below is exact.                   *)

\* hybrid.py:138  score = 0.6 * vec_score + 0.4 * fts_score: the weights, in tenths
VecWeight == 6
FtsWeight == 4

\* hybrid.py:117  abs(rank) / 100.0
RankNorm == 100

\* hybrid.py:30, 83  k_limit = limit * 2, LIMIT {limit * 2}
KLimit(limit) == limit * 2

\* rows[:n]
Prefix(rows, n) == SubSeq(rows, 1, IF n < Len(rows) THEN n ELSE Len(rows))

\* hybrid.py:32-59: the k nearest rows of content_vec, by distance; vec_index is
\* the whole table in the order of the index
VectorResults(vec_index, limit) == Prefix(vec_index, KLimit(limit))

\* hybrid.py:62-89: the matching rows of content_fts, by rank, LIMIT 2 * limit;
\* fts_index is all matching rows in rank order
FtsResults(fts_index, limit) == Prefix(fts_index, KLimit(limit))

\* hybrid.py:98  vec_score = 1.0 / (1.0 + distance)
VecScore(distance) == 1000 \div (1 + distance)

\* hybrid.py:117  fts_score = abs(rank) / 100.0
FtsScore(rank) == (1000 * (IF rank < 0 THEN -rank ELSE rank)) \div RankNorm

\* results_map is a dict, kept in insertion order: the position of a key, or 0
IndexOf(results_map, content_id) ==
    IF \E i \in DOMAIN results_map : results_map[i].id = content_id
    THEN CHOOSE i \in DOMAIN results_map : results_map[i].id = content_id
    ELSE 0

\* hybrid.py:95-111  results_map[content_id] = {..., vec_score, fts_score: 0.0}
RECURSIVE AddVectorResults(_, _)
AddVectorResults(results_map, rows) ==
    IF rows = <<>> THEN results_map
    ELSE LET e == [id |-> Head(rows).id, vec_score |-> VecScore(Head(rows).distance),
                   fts_score |-> 0]
             i == IndexOf(results_map, e.id)
         IN AddVectorResults(IF i = 0 THEN Append(results_map, e)
                             ELSE [results_map EXCEPT ![i] = e],
                             Tail(rows))

\* hybrid.py:114-134: a row already in the map gets its fts_score, a new one is
\* added with vec_score 0.0
RECURSIVE AddFtsResults(_, _)
AddFtsResults(results_map, rows) ==
    IF rows = <<>> THEN results_map
    ELSE LET i == IndexOf(results_map, Head(rows).id)
         IN AddFtsResults(IF i # 0
                          THEN [results_map EXCEPT ![i].fts_score = FtsScore(Head(rows).rank)]
                          ELSE Append(results_map,
                                      [id |-> Head(rows).id, vec_score |-> 0,
                                       fts_score |-> FtsScore(Head(rows).rank)]),
                          Tail(rows))

\* a combined score that is the plain mean of the two scores
CombinedScoreMean(vec_score, fts_score) == (vec_score + fts_score) \div 2

\* hybrid.py:138  0.6 * vec_score + 0.4 * fts_score
CombinedScore(vec_score, fts_score) == (VecWeight * vec_score + FtsWeight * fts_score) \div 10

\* hybrid.py:137-138
WithScore(results_map) ==
    [i \in DOMAIN results_map |->
        [id |-> results_map[i].id, vec_score |-> results_map[i].vec_score,
         fts_score |-> results_map[i].fts_score,
         score |-> CombinedScore(results_map[i].vec_score, results_map[i].fts_score)]]

\* a descending sort that puts a later value before the earlier ones of equal score
RECURSIVE SortedTiesReversed(_)
SortedTiesReversed(values) ==
    IF values = <<>> THEN <<>>
    ELSE LET front == SortedTiesReversed(SubSeq(values, 1, Len(values) - 1))
             last == values[Len(values)]
             k == Cardinality({i \in DOMAIN front : front[i].score > last.score})
         IN SubSeq(front, 1, k) \o <<last>> \o SubSeq(front, k + 1, Len(front))

\* hybrid.py:141-145  sorted(values, key = score, reverse = True): the sort is
\* stable, results of equal score keep the order of the map
RECURSIVE SortedByScore(_)
SortedByScore(values) ==
    IF values = <<>> THEN <<>>
    ELSE LET front == SortedByScore(SubSeq(values, 1, Len(values) - 1))
             last == values[Len(values)]
             k == Cardinality({i \in DOMAIN front : front[i].score >= last.score})
         IN SubSeq(front, 1, k) \o <<last>> \o SubSeq(front, k + 1, Len(front))

\* a truncation that keeps one result too many
TruncateLoose(sorted_results, limit) == Prefix(sorted_results, limit + 1)

\* hybrid.py:147  sorted_results[:limit]
Truncate(sorted_results, limit) == Prefix(sorted_results, limit)

\* hybrid.py:8-147  hybrid_search without a source_types filter
HybridSearch(vec_index, fts_index, limit) ==
    LET vector_results == VectorResults(vec_index, limit)
        fts_results == FtsResults(fts_index, limit)
        results_map == AddFtsResults(AddVectorResults(<<>>, vector_results), fts_results)
    IN Truncate(SortedByScore(WithScore(results_map)), limit)

\* the call of hybrid_search returns (it has no await)
SearchReturn ==
    /\ ~search.returned
    /\ search' = [search EXCEPT !.returned = TRUE,
                                !.results = HybridSearch(search.vec_index, search.fts_index,
                                                         search.limit)]
    /\ UNCHANGED <<upd, owner, now, tables, call, resync, wipes, observe, adding, loops,
                   settings, task, stop_event, stop_call>>

----------------------------------------------------------------------------
(* server.py: the add_content tool *)

\* server.py:837-852: the provider add_content writes to (NoText: it raises);
\* provider is NoText when the caller passes none
ResolveProvider(provider) ==
    IF provider # NoText
    THEN IF RegistryGet(provider) THEN provider ELSE NoText
    ELSE IF RegistryGet(settings.upstream_provider) THEN settings.upstream_provider
    ELSE IF Registry = <<>> THEN NoText ELSE Registry[1]

\* server.py:868-883  INSERT INTO content: no source_id, no upstream_updated_at
InsertAddedContent(st, provider_name, collection_id, text, upstream_doc_id) ==
    LET content_id == st.seq + 1
    IN [st EXCEPT
          !.seq = content_id,
          !.content = @ \cup {[id |-> content_id, source_type |-> provider_name,
                               source_id |-> NoText, collection_id |-> collection_id,
                               upstream_doc_id |-> upstream_doc_id,
                               upstream_updated_at |-> NULL, content |-> text]},
          !.content_vec = @ \cup {[content_id |-> content_id, embedding |-> Embed(text)]}]

\* server.py:893-910: get or create each tag and link it to the record; the tag
\* names of the model are new to the table, so each INSERT OR IGNORE inserts
RECURSIVE LinkTags(_, _, _)
LinkTags(st, content_id, tag_names) ==
    IF tag_names = <<>> THEN st
    ELSE LET tag_id == st.tag_seq + 1
         IN LinkTags([st EXCEPT !.tag_seq = tag_id,
                                !.tags = @ \cup {[id |-> tag_id, name |-> Head(tag_names)]},
                                !.content_tags = @ \cup {[content_id |-> content_id,
                                                          tag_id |-> tag_id]}],
                     content_id, Tail(tag_names))

\* server.py:808-858  add_content is called for a text that will become upstream
\* document d, and runs to its first await (embed)
AddContentCall(d, collection_id, provider, tag_names) ==
    /\ adding.pc = "idle"
    /\ upd[d] = 0
    /\ ResolveProvider(provider) # NoText
    /\ \A i \in DOMAIN tag_names : \A g \in tags : g.name # tag_names[i]
    /\ adding' = [NoAdd EXCEPT !.pc = "embed", !.doc = d, !.collection_id = collection_id,
                               !.provider_name = ResolveProvider(provider),
                               !.tag_names = tag_names]
    /\ UNCHANGED <<upd, owner, now, tables, call, resync, wipes, observe, loops, background>>

\* server.py:858  embed returns; create_document is sent (server.py:861-865)
AddEmbedDone ==
    /\ adding.pc = "embed"
    /\ adding' = [adding EXCEPT !.pc = "create"]
    /\ UNCHANGED <<upd, owner, now, tables, call, resync, wipes, observe, loops, background>>

\* server.py:858 / 861  embed or create_document raises: add_content raises
AddFail ==
    /\ adding.pc \in {"embed", "create"}
    /\ adding' = NoAdd
    /\ UNCHANGED <<upd, owner, now, tables, call, resync, wipes, observe, loops, background>>

\* the upstream knowledge base creates the document; its reply is on the way
AddCreated ==
    /\ adding.pc = "create"
    /\ adding.provider_name = owner
    /\ upd[adding.doc] = 0
    /\ upd' = [upd EXCEPT ![adding.doc] = now]
    /\ adding' = [adding EXCEPT !.pc = "reply", !.upstream_doc_id = adding.doc]
    /\ call' = [t \in Frames |-> IF call[t].pc = "idle" THEN call[t]
                                  ELSE [call[t] EXCEPT !.clean = FALSE]]
    /\ UNCHANGED <<owner, now, tables, resync, wipes, observe, loops, background>>

\* server.py:861-917  create_document returns the id; the record, its vector and
\* its tags are written and committed
AddReply ==
    /\ adding.pc = "reply"
    /\ LET st1 == InsertAddedContent(Store, adding.provider_name, adding.collection_id,
                                     UpstreamDocument(adding.upstream_doc_id).content,
                                     adding.upstream_doc_id)
       IN Write(LinkTags(st1, st1.seq, adding.tag_names))
    /\ adding' = NoAdd
    /\ UNCHANGED <<upd, owner, now, call, resync, wipes, observe, loops, background>>

AddContent ==
    \/ \E collection_id \in {NoText, "A"}, provider \in {NoText, owner},
          tag_names \in {<<>>, <<"work">>} :
            AddContentCall("d2", collection_id, provider, tag_names)
    \/ AddEmbedDone
    \/ AddFail
    \/ AddCreated
    \/ AddReply

----------------------------------------------------------------------------
(* the specifications *)

\* orchestrator.py:30-48, config.py and server.py after start-up: no background
\* task, the stop signal clear, no tool call in flight, no tags
Constructed ==
    /\ tags = {}
    /\ content_tags = {}
    /\ tag_seq = 0
    /\ adding = NoAdd
    /\ search = NoSearch
    /\ settings = DefaultSettings
    /\ task = NoTask
    /\ stop_event = FALSE
    /\ loops = [l \in LoopIds |-> NoLoop]
    /\ stop_call = "idle"

\* after construction: empty tables (db/schema.py), no call in flight; the
\* upstream holds some documents already
Init ==
    /\ upd = [d \in DocIds |-> IF d = "d1" THEN 1 ELSE 0]
    /\ owner \in Registered
    /\ now = 1
    /\ content = {}
    /\ content_vec = {}
    /\ sync_log = <<>>
    /\ sync_state = [c \in Collections |-> NoRow]
    /\ seq = 0
    /\ call = [t \in Frames |-> IdleFrame]
    /\ resync = NoResync
    /\ wipes = 0
    /\ observe = FALSE
    /\ Constructed

Pass(t) ==
    \/ \E has_more \in BOOLEAN : ListDone(t, has_more)
    \/ ListFail(t)
    \/ GetDone(t)
    \/ GetFail(t)
    \/ EmbedDone(t)
    \/ EmbedFail(t)

\* the concurrent system: two callers of sync_collection ("t1" syncs collection
\* "A", "t2" any collection), and an upstream in which documents d1 and d2 change
Next ==
    \/ \E p \in ProviderNames : StartSync("t1", "A", p)
    \/ \E c \in Collections, p \in ProviderNames : StartSync("t2", c, p)
    \/ \E t \in Tasks : Pass(t)
    \/ \E d \in {"d1", "d2"} : UpstreamChange(d)

Spec == Init /\ [][Next]_vars

----------------------------------------------------------------------------
(* the reconciler alone: one caller, an upstream that does not change, and a  *)
(* store that holds any mix of rows earlier runs or add_content left behind   *)

\* what the store may hold for a document whose upstream timestamp is u:
\*   current  a row a pass wrote, up to date
\*   stale    a row a pass wrote before the document was edited
\*   nocoll   an up-to-date row without collection_id (written before the column was filled)
\*   added    the row add_content inserts: no source_id, no upstream_updated_at
\*            (server.py:868-883), here without collection_id
RowKinds(u) ==
    IF u = 0 THEN {"none"}
    ELSE {"none", "current", "nocoll", "added"} \cup (IF u >= 2 THEN {"stale"} ELSE {})

InitialRow(d, kind, content_id, u, provider_name) ==
    LET ts == CASE kind = "added" -> NULL [] kind = "stale" -> u - 1 [] OTHER -> u
    IN [id |-> content_id, source_type |-> provider_name,
        source_id |-> IF kind = "added" THEN NoText ELSE d,
        collection_id |-> IF kind \in {"nocoll", "added"} THEN NoText ELSE HomeCollection(d),
        upstream_doc_id |-> d, upstream_updated_at |-> ts, content |-> <<d, ts>>]

InitialContent(u, kinds, provider_name) ==
    {InitialRow(d, kinds[d],
                Cardinality({e \in DocIds : kinds[e] # "none" /\ Rank(e) <= Rank(d)}),
                u[d], provider_name) : d \in {e \in DocIds : kinds[e] # "none"}}

InitPull ==
    /\ owner = "outline"
    /\ now = MaxTime
    /\ upd \in {u \in [DocIds -> 0..MaxTime] : u["d1"] >= u["d2"] /\ u["d2"] >= u["d3"]}
    /\ \E kinds \in [DocIds -> {"none", "current", "stale", "nocoll", "added"}] :
          /\ \A d \in DocIds : kinds[d] \in RowKinds(upd[d])
          /\ content = InitialContent(upd, kinds, owner)
    /\ content_vec = {[content_id |-> r.id, embedding |-> Embed(r.content)] : r \in content}
    /\ sync_log = <<>>
    /\ sync_state = [c \in Collections |-> NoRow]
    /\ seq = Cardinality(content)
    /\ call = [t \in Frames |-> IdleFrame]
    /\ resync = NoResync
    /\ wipes = 0
    /\ observe = TRUE
    /\ Constructed

NextPull ==
    \/ \E last_pull_at \in 0..MaxTime : StartPull("t1", "A", owner, last_pull_at)
    \/ StartSync("t1", "A", owner)
    \/ Pass("t1")

SpecPull == InitPull /\ [][NextPull]_vars

----------------------------------------------------------------------------
(* full_resync, while a caller of sync_collection may have a pass in flight *)

\* a row of collection "A" that no provider lists (its document was deleted upstream)
LeftoverRow ==
    [id |-> 1, source_type |-> owner, source_id |-> "gone", collection_id |-> "A",
     upstream_doc_id |-> "gone", upstream_updated_at |-> 1, content |-> <<"gone", 1>>]

InitResync ==
    /\ owner \in Registered
    /\ now = 1
    /\ upd \in {[d \in DocIds |-> IF d = "d1" THEN 1 ELSE 0],
                [d \in DocIds |-> IF d = "d3" THEN 0 ELSE 1]}
    /\ content \in {{}, {LeftoverRow}, {InitialRow("d1", "added", 1, upd["d1"], owner)}}
    /\ content_vec = {[content_id |-> r.id, embedding |-> Embed(r.content)] : r \in content}
    /\ sync_log = <<>>
    /\ sync_state = [c \in Collections |-> NoRow]
    /\ seq = Cardinality(content)
    /\ call = [t \in Frames |-> IdleFrame]
    /\ resync = NoResync
    /\ wipes = 0
    /\ observe = FALSE
    /\ Constructed

NextResync ==
    \/ \E p \in Registered : StartSync("t1", "A", p)
    \/ \E t \in {"t1", ResyncTask} : Pass(t)
    \/ \E collection_ids \in {<<"A">>, <<"B", "A">>} : FullResync(collection_ids)

SpecResync == InitResync /\ [][NextResync]_vars

----------------------------------------------------------------------------
(* add_content next to a sync: the upstream holds d1, a tool call adds d2 *)

NextAdd ==
    \/ AddContent
    \/ \E p \in Registered : StartSync("t1", "A", p)
    \/ Pass("t1")

SpecAdd == Init /\ [][NextAdd]_vars

----------------------------------------------------------------------------
(* the background task: start() and stop() called at any time, one stop() at *)
(* a time (main.py:84, 96), under any configuration of the collections       *)

\* nothing configured; the outline collection; the outline and the prompts
\* collection; an explicit list
SettingsChoices ==
    {[DefaultSettings EXCEPT !.outline_collection_id = NoText],
     DefaultSettings,
     [DefaultSettings EXCEPT !.prompts_collection_id = "B"],
     [DefaultSettings EXCEPT !.sync_collections = <<"B", "A">>]}

InitLoop ==
    /\ upd = [d \in DocIds |-> IF d = "d1" THEN 1 ELSE 0]
    /\ owner \in Registered
    /\ now = 1
    /\ content = {}
    /\ content_vec = {}
    /\ sync_log = <<>>
    /\ sync_state = [c \in Collections |-> NoRow]
    /\ seq = 0
    /\ call = [t \in Frames |-> IdleFrame]
    /\ resync = NoResync
    /\ wipes = 0
    /\ observe = FALSE
    /\ tags = {}
    /\ content_tags = {}
    /\ tag_seq = 0
    /\ adding = NoAdd
    /\ search = NoSearch
    /\ settings \in SettingsChoices
    /\ task = NoTask
    /\ stop_event = FALSE
    /\ loops = [l \in LoopIds |-> NoLoop]
    /\ stop_call = "idle"

NextLoop ==
    \/ Start
    \/ Stop
    \/ \E l \in LoopIds : LoopBegin(l) \/ Timer(l) \/ LoopWake(l) \/ Pass(l)

SpecLoop == InitLoop /\ [][NextLoop]_vars

\* the timeout of stop() fires if the task does not finish, and a finished task
\* wakes the stop() that waits for it
SpecStop == SpecLoop /\ WF_vars(StopJoined \/ StopTimeout \/ StopReturn)

----------------------------------------------------------------------------
(* full_resync alone, under any configuration of the collections, on a store *)
(* that syncs and add_content have filled, with a wipe that may fail          *)

\* the configurations of the background task, and one that names the same
\* collection twice
TargetSettings ==
    SettingsChoices \cup {[DefaultSettings EXCEPT !.prompts_collection_id = "A"]}

\* the statements of the wipe (orchestrator.py:242-248)
WipeStatements == 7

\* what the store holds when full_resync is called:
\*   nothing;
\*   after add_content(d2, tags = ["work"]) and a sync of collection "B", which
\*   lists nothing;
\*   the same after a sync of collection "A", which created d1 and updated d2
FilledStores ==
    LET added == [id |-> 1, source_type |-> "outline", source_id |-> NoText,
                  collection_id |-> NoText, upstream_doc_id |-> "d2",
                  upstream_updated_at |-> NULL, content |-> <<"d2", 1>>]
        synced == [added EXCEPT !.collection_id = "A", !.upstream_updated_at = 1]
        created == [id |-> 2, source_type |-> "outline", source_id |-> "d1",
                    collection_id |-> "A", upstream_doc_id |-> "d1",
                    upstream_updated_at |-> 1, content |-> <<"d1", 1>>]
        done == [status |-> "idle", last_pull_at |-> 1, error_message |-> <<>>]
        empty == [upd |-> [d \in DocIds |-> IF d = "d1" THEN 1 ELSE 0],
                  content |-> {}, sync_log |-> <<>>, seq |-> 0,
                  sync_state |-> [c \in Collections |-> NoRow],
                  tags |-> {}, content_tags |-> {}, tag_seq |-> 0]
        after_add == [empty EXCEPT !.upd = [d \in DocIds |-> IF d = "d3" THEN 0 ELSE 1],
                                   !.content = {added}, !.seq = 1,
                                   !.sync_state = [c \in Collections |->
                                                     IF c = "B" THEN done ELSE NoRow],
                                   !.tags = {[id |-> 1, name |-> "work"]},
                                   !.content_tags = {[content_id |-> 1, tag_id |-> 1]},
                                   !.tag_seq = 1]
        after_sync == [after_add EXCEPT
                          !.content = {synced, created}, !.seq = 2,
                          !.sync_log = <<[collection_id |-> "A", operation |-> "create",
                                          upstream_doc_id |-> "d1"],
                                         [collection_id |-> "A", operation |-> "update",
                                          upstream_doc_id |-> "d2"]>>,
                          !.sync_state = [c \in Collections |-> done]]
    IN {empty, after_add, after_sync}

InitWipe ==
    /\ owner = "outline"
    /\ now = 1
    /\ \E s \in FilledStores :
          /\ upd = s.upd
          /\ content = s.content
          /\ sync_log = s.sync_log
          /\ sync_state = s.sync_state
          /\ seq = s.seq
          /\ tags = s.tags
          /\ content_tags = s.content_tags
          /\ tag_seq = s.tag_seq
    /\ content_vec = {[content_id |-> r.id, embedding |-> Embed(r.content)] : r \in content}
    /\ call = [t \in Frames |-> IdleFrame]
    /\ resync = NoResync
    /\ wipes = 0
    /\ observe = FALSE
    /\ adding = NoAdd
    /\ search = NoSearch
    /\ settings \in TargetSettings
    /\ task = NoTask
    /\ stop_event = FALSE
    /\ loops = [l \in LoopIds |-> NoLoop]
    /\ stop_call = "idle"

NextWipe ==
    \/ Pass(ResyncTask)
    \/ \E collection_ids \in {<<>>, <<"A">>, <<"B", "A">>} : FullResync(collection_ids)
    \/ \E collection_ids \in {<<>>, <<"A">>}, k \in 0..(WipeStatements - 1) :
          FullResyncWipeFails(collection_ids, k)

SpecWipe == InitWipe /\ [][NextWipe]_vars

----------------------------------------------------------------------------
(* hybrid_search on any store: the rows of content_vec in the order of their *)
(* distance to the query, the rows of content_fts that match in the order of *)
(* their rank                                                                 *)

\* the records of the store
MaxCandidates == 3
\* the largest limit asked for
MaxLimit == 2

\* distances of a vector to the query, and bm25 ranks (negative, unbounded)
Distances == {0, 3}
Ranks == {-150, -50}

\* the sequences of at most MaxCandidates rows with distinct ids
RowSeqs(Rows) ==
    {q \in UNION {[1..n -> Rows] : n \in 0..MaxCandidates} :
        \A i, j \in DOMAIN q : i # j => q[i].id # q[j].id}

\* ORDER BY vec.distance
VecIndexes ==
    {q \in RowSeqs([id : 1..MaxCandidates, distance : Distances]) :
        \A i, j \in DOMAIN q : i < j => q[i].distance <= q[j].distance}

\* ORDER BY fts.rank
FtsIndexes ==
    {q \in RowSeqs([id : 1..MaxCandidates, rank : Ranks]) :
        \A i, j \in DOMAIN q : i < j => q[i].rank <= q[j].rank}

InitSearch ==
    /\ upd = [d \in DocIds |-> IF d = "d1" THEN 1 ELSE 0]
    /\ owner = "outline"
    /\ now = 1
    /\ content = {}
    /\ content_vec = {}
    /\ sync_log = <<>>
    /\ sync_state = [c \in Collections |-> NoRow]
    /\ seq = 0
    /\ call = [t \in Frames |-> IdleFrame]
    /\ resync = NoResync
    /\ wipes = 0
    /\ observe = FALSE
    /\ tags = {}
    /\ content_tags = {}
    /\ tag_seq = 0
    /\ adding = NoAdd
    /\ settings = DefaultSettings
    /\ task = NoTask
    /\ stop_event = FALSE
    /\ loops = [l \in LoopIds |-> NoLoop]
    /\ stop_call = "idle"
    /\ \E vec_index \in VecIndexes, fts_index \in FtsIndexes, limit \in 1..MaxLimit :
          search = [NoSearch EXCEPT !.limit = limit, !.vec_index = vec_index,
                                    !.fts_index = fts_index]

NextSearch == SearchReturn

SpecSearch == InitSearch /\ [][NextSearch]_vars

----------------------------------------------------------------------------
(* properties of sync_collection under concurrent callers (Spec) *)

\* the reconciler (pull_from_upstream) is running in frame t
InPull(t) == call[t].pc \in {"list", "get", "embed"}


\* C1: of two sync_collection calls on the same collection that overlap in time,
\* exactly one runs the reconciler: the reconciler never runs in both at once,
\* and the call that starts while the other's pass is running returns
\* success=False, error "Sync already in progress", without reconciling anything
C1_ExactlyOneReconciles ==
    /\ [](\A t, u \in Tasks :
            t # u /\ InPull(t) /\ InPull(u) => call[t].coll # call[u].coll)
    /\ [][\A t, u \in Tasks, c \in Collections, p \in Registered :
            (t # u /\ InPull(u) /\ call[u].coll = c /\ StartSync(t, c, p))
            => /\ call'[t].pc = "idle"
               /\ ~call'[t].ret.success
               /\ call'[t].ret.error = "Sync already in progress"
               /\ UNCHANGED tables]_vars

\* C1: a call was turned away while the other caller's pass on the same
\* collection is still running
C1_Witness ==
    \E t, u \in Tasks :
        /\ t # u /\ InPull(u) /\ call[t].pc = "idle"
        /\ call[t].ret.coll = call[u].coll /\ call[t].ret.prov \in Registered
        /\ call[t].ret.error = "Sync already in progress"

\* every upstream document of collection c (timestamps u) has a row in cont with
\* its upstream_doc_id, collection_id = c and the document's updated_at
Converged(cont, u, c) ==
    \A d \in DocIds :
        (u[d] # 0 /\ HomeCollection(d) = c)
        => \E r \in cont : /\ r.upstream_doc_id = d
                            /\ r.collection_id = c
                            /\ r.upstream_updated_at = u[d]

\* C2: when a sync_collection pass of collection C against its owning provider
\* completes, and during that pass the upstream did not change and no provider
\* or embedding call failed, the store is converged for C, whatever happened
\* in earlier passes
C2_Convergence ==
    [][\A t \in Tasks :
        (/\ InPull(t) /\ call'[t].pc = "idle"
         /\ call[t].clean /\ call[t].prov = owner
         /\ call'[t].ret.errors = <<>>)
        => Converged(content', upd', call[t].coll)]_vars

\* C2: a pass during which the upstream changed has returned, and a later
\* pass that saw no change and no failure has created or updated documents
C2_Witness ==
    \E t, u \in Tasks :
        /\ t # u /\ call[t].pc = "idle" /\ call[u].pc = "idle"
        /\ call[t].ret.has_result /\ ~call[t].ret.clean
        /\ call[t].ret.coll = "A" /\ call[t].ret.prov = owner
        /\ call[u].ret.success /\ call[u].ret.clean
        /\ call[u].ret.coll = "A" /\ call[u].ret.prov = owner
        /\ call[u].ret.created + call[u].ret.updated >= 1
        /\ Converged(content, upd, "A")

\* C10: a sync_collection call for a collection whose status is 'syncing', or
\* with a provider name that is not registered, returns an unsuccessful result
\* at once (no provider call, no reconciler pass) and leaves sync_state,
\* content, content_vec and sync_log as they were
C10_RejectedHasNoEffect ==
    [][\A t \in Tasks, c \in Collections, p \in ProviderNames :
        ((p \notin Registered \/ sync_state[c].status = "syncing") /\ StartSync(t, c, p))
        => /\ UNCHANGED tables
           /\ call'[t].pc = "idle"
           /\ ~call'[t].ret.success /\ ~call'[t].ret.has_result
           /\ call'[t].ret.error = IF p \notin Registered THEN "Provider not registered"
                                   ELSE "Sync already in progress"]_vars

\* C10: both kinds of rejection happened, one of them while rows were stored
C10_Witness ==
    /\ content # {}
    /\ \E t, u \in Tasks :
        /\ call[t].pc = "idle" /\ call[t].ret.error = "Provider not registered"
        /\ call[u].pc = "idle" /\ call[u].ret.error = "Sync already in progress"

----------------------------------------------------------------------------
(* properties of one reconciler pass (SpecPull) *)

\* the result of the call that returned last in frame t
Returned(t) == call[t].ret

\* the rows of document d
RowsOf(cont, d) == {r \in cont : r.upstream_doc_id = d}

\* C3: a pass with no checkpoint and no failing call, over a listing of N
\* documents none of which had a local row, returns created = N, updated = 0,
\* skipped = 0, errors = [], and the store then holds exactly one row per
\* listed document
C3_Classification ==
    \A t \in Tasks :
        LET r == Returned(t)
            listed == Holds(r.prov, r.coll)
        IN (/\ call[t].pc = "idle" /\ r.has_result
            /\ r.last_pull_at = NULL /\ r.failures = <<>> /\ r.had_local = {})
           => /\ r.created = Cardinality(listed)
              /\ r.updated = 0 /\ r.skipped = 0 /\ r.errors = <<>>
              /\ \A d \in listed : Cardinality(RowsOf(content, d)) = 1

\* C3: such a pass returned after creating all three documents, over two pages
C3_Witness ==
    \E t \in Tasks :
        LET r == Returned(t)
        IN /\ call[t].pc = "idle" /\ r.has_result
           /\ r.last_pull_at = NULL /\ r.failures = <<>> /\ r.had_local = {}
           /\ Cardinality(Holds(r.prov, r.coll)) = 3 /\ r.created = 3
           /\ Len(r.requested) >= 2

\* the pass x (a running frame, or a result) directly follows a pass of the
\* same collection and provider
SecondRun(x) == x.prev.ran

\* it runs with the checkpoint that pass left in sync_state
UsesCheckpointLeft(x) == x.last_pull_at # NULL /\ x.last_pull_at = x.prev.left

UsesNoCheckpoint(x) == x.last_pull_at = NULL

FirstRunComplete(x) == x.prev.ok /\ x.prev.full

NotNewer(x) ==
    IF x.last_pull_at = NULL THEN {}
    ELSE {d \in Holds(x.prov, x.coll) : upd[d] <= x.last_pull_at}

\* the offset of the page on which the first of them is listed
OffsetOfFirstNotNewer(x) ==
    LET all == Listing(x.prov, x.coll)
        k == CHOOSE i \in 1..Len(all) :
                /\ all[i].id \in NotNewer(x)
                /\ \A j \in 1..(i - 1) : all[j].id \notin NotNewer(x)
    IN ((k - 1) \div PageLimit) * PageLimit

\* the vectors of the rows of document d
VectorsOf(cont, vec, d) == {v \in vec : \E r \in RowsOf(cont, d) : v.content_id = r.id}

\* the sync_log entries of document d
LogOf(log, d) == SelectSeq(log, LAMBDA e : e.upstream_doc_id = d)

\* pass x never asked for a document in S, nor for a page beyond offset
StoppedAt(x, S, offset) ==
    /\ x.fetched \cap S = {}
    /\ \A i \in 1..Len(x.requested) : x.requested[i] <= offset

\* C5: in a pass with checkpoint T over a listing sorted by updated_at
\* descending, a document listed with updated_at <= T is never fetched or
\* embedded, no row, vector or sync_log entry of it is written (the
\* collection_id backfill included), and no page is requested after the one
\* that lists the first such document
C5_EarlyTermination ==
    /\ [](\A t \in Tasks :
            LET x == IF InPull(t) THEN call[t] ELSE Returned(t)
            IN (InPull(t) \/ Returned(t).has_result) /\ NotNewer(x) # {}
               => StoppedAt(x, NotNewer(x), OffsetOfFirstNotNewer(x)))
    /\ [][\A t \in Tasks : \A d \in NotNewer(call[t]) :
            InPull(t)
            => /\ RowsOf(content', d) = RowsOf(content, d)
               /\ VectorsOf(content', content_vec', d) = VectorsOf(content, content_vec, d)
               /\ LogOf(sync_log', d) = LogOf(sync_log, d)]_vars

\* C5: a pass with a checkpoint returned; it wrote a newer document and left
\* alone an older one that had no row, and one whose row lacked collection_id
C5_Witness ==
    \E t \in Tasks :
        LET r == Returned(t)
        IN /\ call[t].pc = "idle" /\ r.has_result /\ r.last_pull_at # NULL
           /\ r.created + r.updated >= 1
           /\ \E d \in NotNewer(r) : RowsOf(content, d) = {}
           /\ \E d \in NotNewer(r) : \E q \in RowsOf(content, d) : q.collection_id = NoText

\* exactly one call of pass x raised, and it was get_document or embed
OneDocumentFailed(x) == Len(x.failures) = 1 /\ x.failures[1][1] \in {"get", "embed"}

\* the document that call was for
FailedDocument(x) == x.failures[1][2]

\* the store holds document d as the upstream lists it
UpToDate(cont, d) == ~NeedsUpdate(SelectByUpstreamDocId(cont, d), upd[d])

\* C6: when get_document or embed fails for one listed document, the pass goes
\* on: errors holds exactly one entry, naming that document; the document is
\* not written (its row, if any, stays outdated, and sync_log has no entry for
\* it); every other listed document the pass had to examine is up to date in
\* the store, and created + updated counts all fetched documents but the one
C6_ErrorIsolation ==
    \A t \in Tasks :
        LET r == Returned(t)
            d == FailedDocument(r)
        IN (call[t].pc = "idle" /\ r.has_result /\ OneDocumentFailed(r))
           => /\ r.errors = <<DocError(d)>>
              /\ d \in r.fetched
              /\ ~UpToDate(content, d)
              /\ LogOf(sync_log, d) = <<>>
              /\ \A e \in Holds(r.prov, r.coll) \ ({d} \cup NotNewer(r)) : UpToDate(content, e)
              /\ r.created + r.updated = Cardinality(r.fetched) - 1
              /\ r.created = Cardinality({e \in r.fetched \ {d} : e \notin r.had_local})

\* C6: of three new documents the second failed; the pass created the first
\* and, on the next page, the third
C6_Witness ==
    \E t \in Tasks :
        LET r == Returned(t)
        IN /\ call[t].pc = "idle" /\ r.has_result /\ OneDocumentFailed(r)
           /\ FailedDocument(r) = "d2" /\ r.had_local = {}
           /\ r.created = 2 /\ RowsOf(content, "d2") = {}
           /\ RowsOf(content, "d1") # {} /\ RowsOf(content, "d3") # {}

\* C7: when list_documents fails for a page, the pass ends there: it requests
\* no further page and processes no further document, the rows and vectors
\* written before stay as they are, the failure is among the errors of the
\* pass, and a sync_collection call leaves the collection at status 'error'
\* with a message
C7_PageFailure ==
    [][\A t \in Tasks :
        ListFail(t)
        => /\ call'[t].pc = "idle"
           /\ content' = content /\ content_vec' = content_vec /\ sync_log' = sync_log
           /\ Returned(t)'.has_result
           /\ \E i \in 1..Len(Returned(t)'.errors) :
                 Returned(t)'.errors[i] = PageError(call[t].offset)
           /\ Returned(t)'.requested = call[t].requested
           /\ Returned(t)'.fetched = call[t].fetched
           /\ call[t].via = "sync"
              => /\ ~Returned(t)'.success
                 /\ sync_state'[call[t].coll].status = "error"
                 /\ sync_state'[call[t].coll].error_message # <<>>]_vars

\* C7: a sync_collection call returned after its second page failed; the
\* documents of the first page are in the store, the collection is at 'error'
C7_Witness ==
    \E t \in Tasks :
        LET r == Returned(t)
        IN /\ call[t].pc = "idle" /\ r.kind = "sync" /\ r.has_result
           /\ r.failures = << <<"list", PageLimit>> >>
           /\ r.created = PageLimit /\ Cardinality(content) = PageLimit
           /\ sync_state[r.coll].status = "error"
           /\ sync_state[r.coll].error_message = <<PageError(PageLimit)>>

----------------------------------------------------------------------------
(* properties of full_resync and of the status of a collection (SpecResync) *)

\* C8, as stated: when full_resync(["A"]) returns, no call having failed and no
\* other caller having synced, the store holds exactly as many rows with
\* collection_id "A" as the owning provider lists for "A", and the status of
\* "A" is 'idle'
C8_FullResyncCompleteness ==
    [][(/\ ~resync.returned /\ resync'.returned
        /\ resync'.targets = <<"A">> /\ ~resync'.failed
        /\ call'["t1"] = IdleFrame)
       => /\ Cardinality({r \in content' : r.collection_id = "A"})
                = Cardinality(Holds(owner, "A"))
          /\ sync_state'["A"].status = "idle"]_vars

\* in this step frame t starts a reconciler pass on collection c
Started(t, c) ==
    /\ call'[t].pc = "list" /\ call'[t].offset = 0 /\ call'[t].coll = c
    /\ call'[t] # call[t]

\* in this step the reconciler pass of frame t ends and its sync_collection call returns
PassEnded(t) ==
    /\ InPull(t)
    /\ call'[t].pc = "idle" \/ Started(t, call'[t].coll)

\* the number of errors, and the success flag, of the call that returns so
EndedErrors(t) ==
    IF t = ResyncTask THEN resync'.attempts[Len(resync.attempts) + 1].errors
    ELSE Len(Returned(t)'.errors)

EndedSuccess(t) ==
    IF t = ResyncTask THEN resync'.attempts[Len(resync.attempts) + 1].success
    ELSE Returned(t)'.success

\* the status of c becomes 'syncing' only where a sync_collection call that
\* found it not 'syncing' starts its pass
EntersSyncingAtStart(c) ==
    (sync_state[c].status # "syncing" /\ sync_state'[c].status = "syncing")
    => \E t \in Frames : Started(t, c)

\* the status of c leaves 'syncing' for 'idle' or 'error', where a pass on c
\* ends, with 'idle' exactly if the pass collected no errors
LeavesSyncingAtReturn(c) ==
    /\ sync_state'[c].status \in {"idle", "error"}
    /\ \E t \in Frames :
          /\ PassEnded(t) /\ call[t].coll = c
          /\ sync_state'[c].status = "idle" <=> EndedErrors(t) = 0

\* where a sync_collection call that ran a pass returns, the status of its
\* collection is 'error' if the result is unsuccessful and 'idle' otherwise
\* (unless the next call of full_resync marks the collection again at once)
StatusMatchesResult(t) ==
    (PassEnded(t) /\ ~Started(t, call[t].coll))
    => sync_state'[call[t].coll].status = IF EndedSuccess(t) THEN "idle" ELSE "error"

\* C9, as stated: 'syncing' is entered only at the start of a guarded call, left
\* only for 'idle' or 'error' at the return of a call, and at a return the
\* status is 'error' iff the result is unsuccessful
C9_LifecycleAsStated ==
    [][/\ \A c \in Collections :
            /\ EntersSyncingAtStart(c)
            /\ (sync_state[c].status = "syncing" /\ sync_state'[c].status # "syncing")
               => LeavesSyncingAtReturn(c)
       /\ \A t \in Frames : StatusMatchesResult(t)]_vars

\* the wipe of full_resync deletes the row of c
Wiped(c) == wipes' = wipes + 1 /\ sync_state'[c] = NoRow

\* C9, amended: the same, except that a 'syncing' row may also disappear in the
\* wipe of full_resync
C9_Lifecycle ==
    [][/\ \A c \in Collections :
            /\ EntersSyncingAtStart(c)
            /\ (sync_state[c].status = "syncing" /\ sync_state'[c].status # "syncing")
               => (LeavesSyncingAtReturn(c) \/ Wiped(c))
       /\ \A t \in Frames : StatusMatchesResult(t)]_vars

\* C9: after a wipe, a sync_collection call has returned unsuccessful and left
\* its collection at 'error', another (of full_resync) successful, leaving 'idle'
C9_Witness ==
    /\ wipes = 1 /\ resync.returned
    /\ call["t1"].pc = "idle" /\ Returned("t1").has_result /\ ~Returned("t1").success
    /\ sync_state["A"].status = "error"
    /\ \E i \in 1..Len(resync.attempts) :
          resync.attempts[i].success /\ resync.attempts[i].has_result

----------------------------------------------------------------------------
(* properties of the checkpoint *)

\* the store holds, for document d, a row at least as new as the upstream document
ConvergedUpTo(cont, d) ==
    \E r \in cont : /\ r.upstream_doc_id = d
                     /\ r.upstream_updated_at # NULL
                     /\ r.upstream_updated_at >= upd[d]

\* C11, as stated: whenever sync_state holds a last_pull_at T for collection c,
\* every upstream document of c with updated_at <= T has a row whose
\* upstream_updated_at is at least the document's updated_at
C11_CheckpointSoundness ==
    \A c \in Collections :
        sync_state[c].last_pull_at # NULL
        => \A d \in DocIds :
              (upd[d] # 0 /\ HomeCollection(d) = c /\ upd[d] <= sync_state[c].last_pull_at)
              => ConvergedUpTo(content, d)

\* C12, as stated: the checkpoint a sync_collection call hands to the
\* reconciler is the last_pull_at the collection's row held when the call
\* started (the one the last completed pass stored)
C12_CheckpointHandedOn ==
    [][\A t \in Tasks, c \in Collections :
        (/\ call[t].pc = "idle" /\ Started(t, c) /\ call'[t].via = "sync"
         /\ sync_state[c].last_pull_at # NULL)
        => call'[t].last_pull_at = sync_state[c].last_pull_at]_vars

----------------------------------------------------------------------------
(* properties of the rows of the store *)

\* C13, as stated: at every suspension point a content_vec row exists for a
\* content id if and only if a content row with that id exists, also while a
\* pass is in flight across a full_resync wipe
C13_VectorIffRecord ==
    /\ \A v \in content_vec : \E r \in content : r.id = v.content_id
    /\ \A r \in content : \E v \in content_vec : v.content_id = r.id

\* C14, as stated: no two records share (source_type, source_id), and no two
\* records share a non-null upstream_doc_id, also when add_content runs next to
\* a sync pass
C14_Uniqueness ==
    \A r1, r2 \in content :
        r1.id # r2.id
        => /\ ~(r1.source_id # NoText /\ r1.source_type = r2.source_type
                                      /\ r1.source_id = r2.source_id)
           /\ ~(r1.upstream_doc_id # NoText /\ r1.upstream_doc_id = r2.upstream_doc_id)

----------------------------------------------------------------------------
(* properties of start(), stop() and the background loop (SpecLoop) *)

\* C15: start() is idempotent: at most one background task is alive at any
\* time, and start() called while the handle is set creates no task and
\* changes nothing
C15_StartIdempotent ==
    /\ [](Cardinality(Alive) <= 1)
    /\ [][(task # NoTask /\ Start) => UNCHANGED vars]_vars

\* a task is running in the middle of a pass, a stop() is waiting for it, and a
\* collection was synced before: a start() called now finds the handle set
C15_Witness ==
    /\ task # NoTask
    /\ Alive = {task}
    /\ loops[task].pc = "sync"
    /\ stop_call = "wait_for"
    /\ \E c \in Collections : sync_state[c].status = "idle"

\* C16: stop() always returns; it sets the stop signal before it waits; when it
\* returns no background task is running and the handle is cleared, so that a
\* later start() launches a fresh loop; stop() without a task is a no-op
C16_StopReturns ==
    /\ (stop_call # "idle") ~> (stop_call = "idle")
    /\ [][(stop_call = "idle" /\ stop_call' # "idle") => stop_event']_vars
    /\ [][(stop_call # "idle" /\ stop_call' = "idle") => (task' = NoTask /\ Alive' = {})]_vars
    /\ [][(stop_call = "idle" /\ task = NoTask /\ Start)
            => (task' # NoTask /\ Alive' = {task'} /\ loops'[task'].pc = "new" /\ ~stop_event')]_vars
    /\ [][(task = NoTask /\ StopCall) => UNCHANGED vars]_vars

\* stop() has returned after cancelling the task in the middle of a pass
C16_Witness ==
    /\ stop_call = "idle"
    /\ task = NoTask
    /\ stop_event
    /\ Alive = {}
    /\ \E c \in Collections : sync_state[c].status = "syncing"

\* a background task is waiting between two passes
Waiting(l) == loops[l].pc \in {"wait", "sleep"}

\* C17, as stated: in every waiting state of the background loop, also the one
\* entered when no collections are configured, a set stop signal ends the wait
\* without the interval having to elapse, and the loop then exits
C17_StopEndsWait ==
    /\ [](\A l \in LoopIds : (Waiting(l) /\ stop_event) => CanWake(l))
    /\ [][\A l \in LoopIds :
            (Waiting(l) /\ stop_event /\ LoopWake(l)) => loops'[l].pc = "done"]_vars

----------------------------------------------------------------------------
(* properties of full_resync (SpecWipe) *)

\* the arguments full_resync is called with
ResyncArguments == {<<>>, <<"A">>, <<"B", "A">>}

\* the target collections as the specification lists them: the argument, else
\* the configured list, else the outline collection then the prompts
\* collection, without duplicates; <<>> when none can be determined
Targets(collection_ids) ==
    LET o == settings.outline_collection_id
        q == settings.prompts_collection_id
    IN IF collection_ids # <<>> THEN collection_ids
       ELSE IF settings.sync_collections # <<>> THEN settings.sync_collections
       ELSE IF o # NoText /\ q # NoText /\ o # q THEN <<o, q>>
       ELSE IF o # NoText THEN <<o>>
       ELSE IF q # NoText THEN <<q>>
       ELSE <<>>

C19_WipeIsGlobal ==
    [][\A collection_ids \in ResyncArguments :
         (FullResync(collection_ids) /\ resync'.raised = NoText)
         => /\ LET st == ClearAllLocalData(Store)
               IN /\ st.content_tags = {} /\ st.tags = {}
                  /\ st.content_vec = {} /\ st.content = {}
                  /\ st.sync_log = <<>>
                  /\ \A c \in Collections : st.sync_state[c] = NoRow
            /\ content_tags' = {} /\ tags' = {}
            /\ content_vec' = {} /\ content' = {}
            /\ sync_log' = <<>>
            /\ \A c \in Collections :
                  sync_state'[c] # NoRow
                  => /\ c = resync'.targets[1]
                     /\ sync_state'[c].status = "syncing"
                     /\ call'[ResyncTask].pc = "list"
                     /\ call'[ResyncTask].coll = c]_vars

\* full_resync(["A"]) has wiped a store that held a record added by hand with
\* its tag and the sync state of collection "B", and awaits its first listing
C19_Witness ==
    /\ resync.pc = "running"
    /\ resync.targets = <<"A">>
    /\ call[ResyncTask].pc = "list"
    /\ resync.attempts = <<>>
    /\ tag_seq > 0 /\ tags = {} /\ content_tags = {}
    /\ seq > 0 /\ content = {} /\ content_vec = {}
    /\ sync_state["B"] = NoRow

\* C20: when the wipe fails, full_resync fails with an error and makes no
\* provider call and no sync_collection call
C20_WipeFailureAborts ==
    [][\A collection_ids \in ResyncArguments, k \in 0..(WipeStatements - 1) :
         FullResyncWipeFails(collection_ids, k)
         => /\ resync'.raised = "RuntimeError"
            /\ resync'.pc = "idle"
            /\ ~resync'.returned
            /\ resync'.attempts = <<>>
            /\ UNCHANGED call
            /\ \A c \in Collections :
                  sync_state'[c].status = "syncing" => sync_state[c].status = "syncing"]_vars

\* the wipe of a filled store failed after the tags were deleted: full_resync
\* raised, the records are still there, no call was started
C20_Witness ==
    /\ resync.raised = "RuntimeError"
    /\ tag_seq > 0 /\ tags = {}
    /\ content # {}
    /\ \A t \in Frames : call[t].pc = "idle"

----------------------------------------------------------------------------
(* properties of the provider loop of full_resync (SpecResync) *)

\* the outcome after which the specification stops trying providers
OwnerFound(a) == a.success /\ a.created + a.updated > 0

\* the position of a provider in the registry
RegistryIndex(provider_name) == CHOOSE i \in DOMAIN Registry : Registry[i] = provider_name

\* C21, as stated: for each target collection the providers are tried in
\* registry order; trying stops for the collection exactly when a provider's
\* sync is successful with created + updated > 0, and after any other outcome
\* the next registered provider is tried
C21_OwnershipDetection ==
    resync.returned
    => LET at == resync.attempts
       IN \A i \in DOMAIN at :
             IF OwnerFound(at[i]) \/ RegistryIndex(at[i].prov) = Len(Registry)
             THEN i < Len(at) => /\ at[i + 1].coll # at[i].coll
                                 /\ at[i + 1].prov = Registry[1]
             ELSE /\ i < Len(at)
                  /\ at[i + 1].coll = at[i].coll
                  /\ at[i + 1].prov = Registry[RegistryIndex(at[i].prov) + 1]


----------------------------------------------------------------------------
(* properties of hybrid_search (SpecSearch) *)

\* the rows the two retrievals of the call hand back
Retrieved == [vec |-> Prefix(search.vec_index, 2 * search.limit),
              fts |-> Prefix(search.fts_index, 2 * search.limit)]

\* the candidate union of the call
CandidateIds ==
    {Retrieved.vec[i].id : i \in DOMAIN Retrieved.vec}
        \cup {Retrieved.fts[i].id : i \in DOMAIN Retrieved.fts}

\* the scores the specification gives a candidate, in thousandths
SpecVecScore(id) ==
    IF \E i \in DOMAIN Retrieved.vec : Retrieved.vec[i].id = id
    THEN LET i == CHOOSE i \in DOMAIN Retrieved.vec : Retrieved.vec[i].id = id
         IN 1000 \div (1 + Retrieved.vec[i].distance)
    ELSE 0

SpecFtsScore(id) ==
    IF \E i \in DOMAIN Retrieved.fts : Retrieved.fts[i].id = id
    THEN LET i == CHOOSE i \in DOMAIN Retrieved.fts : Retrieved.fts[i].id = id
             rank == Retrieved.fts[i].rank
         IN (1000 * (IF rank < 0 THEN -rank ELSE rank)) \div 100
    ELSE 0

SpecScore(id) == (6 * SpecVecScore(id) + 4 * SpecFtsScore(id)) \div 10

ReturnedIds == {search.results[i].id : i \in DOMAIN search.results}

\* C22, as stated: every result of hybrid_search has a vec_score and an
\* fts_score between 0 and 1 and a combined score between 0 and 1, whatever
\* the distances and the ranks of the store are.  The code divides |rank| by
\* 100 and never clamps it, and a bm25 rank is not bounded by 100.
C22_ScoreBounded ==
    search.returned
    => \A i \in DOMAIN search.results :
          /\ 0 <= search.results[i].vec_score /\ search.results[i].vec_score <= 1000
          /\ 0 <= search.results[i].fts_score /\ search.results[i].fts_score <= 1000
          /\ 0 <= search.results[i].score /\ search.results[i].score <= 1000

\* C23: hybrid_search returns at most limit results, no content id twice, in
\* the order of non-increasing combined score; every candidate of the union
\* that is left out scores no more than every returned result; an empty union
\* gives an empty list.
C23_TopOfUnion ==
    search.returned
    => LET r == search.results
       IN /\ Len(r) <= search.limit
          /\ \A i, j \in DOMAIN r : i # j => r[i].id # r[j].id
          /\ \A i, j \in DOMAIN r : i < j => r[i].score >= r[j].score
          /\ \A id \in CandidateIds \ ReturnedIds :
                \A i \in DOMAIN r : SpecScore(id) <= r[i].score
          /\ CandidateIds = {} => r = <<>>

\* a call whose union holds more candidates than the limit: the limit is
\* reached and a candidate is left out
C23_Witness ==
    /\ search.returned
    /\ Len(search.results) = search.limit
    /\ search.limit > 1
    /\ CandidateIds \ ReturnedIds # {}
    /\ search.results[1].score > search.results[2].score

\* C24: every result is a candidate of the union of the two retrievals, each
\* capped at 2 * limit rows; it carries 1/(1+distance) if the vector retrieval
\* found it and 0 otherwise, |rank|/100 if the keyword retrieval found it and 0
\* otherwise, and its score is 0.6 * vec_score + 0.4 * fts_score; and no
\* candidate of the union is missing unless the limit is reached.
C24_UnionScoring ==
    search.returned
    => LET r == search.results
       IN /\ \A i \in DOMAIN r :
                /\ r[i].id \in CandidateIds
                /\ r[i].vec_score = SpecVecScore(r[i].id)
                /\ r[i].fts_score = SpecFtsScore(r[i].id)
                /\ 10 * r[i].score = 6 * r[i].vec_score + 4 * r[i].fts_score
          /\ Len(r) < search.limit => ReturnedIds = CandidateIds

\* a call that returns a candidate found by both retrievals next to one found
\* by the vector retrieval only
C24_Witness ==
    /\ search.returned
    /\ \E i, j \in DOMAIN search.results :
          /\ search.results[i].vec_score > 0 /\ search.results[i].fts_score > 0
          /\ search.results[j].vec_score > 0 /\ search.results[j].fts_score = 0

----------------------------------------------------------------------------
(* properties of the checkpoint write (Spec) *)

\* C25: every reconciler pass that ends, also one that collected document
\* errors or gave up on a page, leaves in sync_state a last_pull_at that is the
\* wall-clock time of its end, which is not earlier than the time it started
C25_CheckpointIsCompletionTime ==
    [][\A t \in Tasks :
          (InPull(t) /\ call'[t].pc = "idle")
          => /\ sync_state'[call[t].coll].last_pull_at = now'
             /\ sync_state'[call[t].coll].last_pull_at >= call[t].started]_vars

\* a pass that started at time 1, gave up on a page and ended at time 2, after
\* the upstream had changed
C25_Witness ==
    \E t \in Tasks :
        /\ call[t].pc = "idle"
        /\ Returned(t).has_result
        /\ \E i \in DOMAIN Returned(t).errors : Returned(t).errors[i][1] = PageError(0)[1]
        /\ ~Returned(t).clean
        /\ now > 1
        /\ sync_state[Returned(t).coll].last_pull_at = now

----------------------------------------------------------------------------
(* properties of failed documents across passes (SpecPull) *)

\* the documents whose get_document or embed call raised, among the failures x
FailedDocuments(failures) ==
    {failures[i][2] : i \in {j \in DOMAIN failures : failures[j][1] \in {"get", "embed"}}}

\* the documents the list_documents calls of the returned pass x handed to it
ListedIn(x) ==
    {d \in DocIds :
        \E i \in DOMAIN x.requested :
            /\ \A j \in DOMAIN x.failures : x.failures[j] # <<"list", x.requested[i]>>
            /\ \E k \in DOMAIN PageDocuments(x.prov, x.coll, PageLimit, x.requested[i]) :
                  PageDocuments(x.prov, x.coll, PageLimit, x.requested[i])[k].id = d}

\* C26: while a pass runs, no get_document or embed call is made for a
\* document for which such a call has already raised in that pass; and a
\* sync_collection pass that follows a pass of the same collection and provider
\* in which a document failed calls get_document for that document again, if its
\* listing holds the document and the store has no up-to-date row for it
C26_RetryOnNextPass ==
    /\ call["t1"].pc \in {"get", "embed"}
       => call["t1"].page[call["t1"].idx].id \notin FailedDocuments(call["t1"].failures)
    /\ LET x == Returned("t1")
       IN (call["t1"].pc = "idle" /\ x.kind = "sync" /\ x.has_result /\ x.prev.ran)
          => \A d \in x.prev.failed :
                (d \in ListedIn(x) /\ ~UpToDate(content, d)) => d \in x.fetched

\* a sync_collection pass has returned that followed a pass in which one document
\* failed, and it has asked for that document again and stored it
C26_Witness ==
    LET x == Returned("t1")
    IN /\ call["t1"].pc = "idle" /\ x.kind = "sync" /\ x.has_result
       /\ \E d \in x.prev.failed :
             /\ d \in x.fetched
             /\ d \in ListedIn(x)
             /\ UpToDate(content, d)
             /\ x.created + x.updated > 0

----------------------------------------------------------------------------
(* properties of the rounds of the background loop (SpecLoop) *)

\* every pair the for loops of a round go through, in their order
RECURSIVE AllPairs(_)
AllPairs(collections) ==
    IF collections = <<>> THEN <<>>
    ELSE <<  <<Head(collections), Registry[1]>>, <<Head(collections), Registry[2]>>  >>
            \o AllPairs(Tail(collections))

\* C27: once the stop signal is set no background task makes a further
\* sync_collection call; setting the signal changes no frame of a pass in
\* flight, and while it is set a pass in flight goes on by its own steps (only
\* the cancellation after stop()'s timeout ends it early)
C27_CooperativeStop ==
    [][/\ stop_event
          => \A l \in LoopIds : loops'[l].attempts \in {loops[l].attempts, <<>>}
       /\ (~stop_event /\ stop_event')
          => (call' = call /\ loops' = loops /\ sync_state' = sync_state)
       /\ \A l \in LoopIds :
             (stop_event /\ InPull(l) /\ call'[l] # call[l])
             => (Pass(l) \/ StopTimeout)]_vars

\* the signal came while a sync_collection call of the task was in flight: the
\* call has returned its result and the task has finished without the calls
\* that were left in its round
C27_Witness ==
    /\ stop_event
    /\ task # NoTask
    /\ loops[task].pc = "done"
    /\ Returned(task).has_result
    /\ Len(loops[task].attempts) > 0
    /\ Len(loops[task].attempts) < Len(AllPairs(loops[task].collections))

\* C28: a round of the background loop during which the stop signal is not set
\* calls sync_collection once for every pair of a configured collection and a
\* registered provider, collections in the configured order and providers in
\* the order of the registry, whatever the calls return; while a call of the
\* round is in flight the calls made so far are the pairs up to that call
C28_RoundCoversAllPairs ==
    \A l \in LoopIds :
        LET pairs == AllPairs(GetCollectionsToSync(<<>>))
            n == Len(loops[l].attempts)
        IN /\ (loops[l].pc = "wait" /\ ~stop_event) => loops[l].attempts = pairs
           /\ loops[l].pc = "sync"
              => /\ n \in 1..Len(pairs)
                 /\ loops[l].attempts = SubSeq(pairs, 1, n)
                 /\ pairs[n] = <<call[l].coll, call[l].prov>>

\* the last call of an earlier round failed (it left its collection in status
\* 'error'), and a round has begun with the first pair
C28_Witness ==
    \E l \in LoopIds :
        /\ ~stop_event
        /\ loops[l].pc = "sync"
        /\ Len(loops[l].collections) = 2
        /\ loops[l].attempts = << <<loops[l].collections[1], Registry[1]>> >>
        /\ sync_state[loops[l].collections[2]].status = "error"

----------------------------------------------------------------------------
(* properties of the statistics of full_resync (SpecResync) *)

\* the sum of field created, updated or errors over the calls full_resync made
RECURSIVE SumOver(_, _)
SumOver(attempts, field) ==
    IF attempts = <<>> THEN 0
    ELSE (CASE field = "created" -> Head(attempts).created
            [] field = "updated" -> Head(attempts).updated
            [] OTHER -> Head(attempts).errors)
         + SumOver(Tail(attempts), field)

\* C29, as stated: when full_resync returns, total_created and total_updated
\* are the numbers of records its passes created and updated, and total_errors
\* is 0 only if none of its passes collected an error
C29_StatisticsAggregate ==
    resync.returned
    => /\ resync.total_created = SumOver(resync.attempts, "created")
       /\ resync.total_updated = SumOver(resync.attempts, "updated")
       /\ resync.total_errors = 0 => SumOver(resync.attempts, "errors") = 0

----------------------------------------------------------------------------
(* properties of the classification of a listed document (SpecPull) *)

\* the positions of page, from i0 on, that lie above the checkpoint (the loop
\* over the page stops at the first document at or below it)
AboveCheckpoint(page, i0, last_pull_at) ==
    {j \in i0..Len(page) :
        \A k \in i0..j : last_pull_at = NULL \/ page[k].updated_at > last_pull_at}

\* the step goes through page from position i0 on: the positions it passes
\* without a get_document call are skips, the one it stops at for get_document
\* is a create or an update
ClassifiesFrom(page, i0) ==
    LET f == call["t1"]
        g == call'["t1"]
        stop == IF g.pc = "get" /\ g.offset = f.offset THEN g.idx ELSE Len(page) + 1
        passed == {j \in AboveCheckpoint(page, i0, f.last_pull_at) : j < stop}
        skipped_now == IF g.pc = "idle" THEN g.ret.skipped ELSE g.skipped
        local(j) == SelectByUpstreamDocId(content, page[j].id)
    IN /\ skipped_now = f.skipped + Cardinality(passed)
       /\ \A j \in passed :
             \* a skip: there is a row, and its timestamp is neither null nor older
             /\ local(j).id # 0
             /\ local(j).upstream_updated_at # NULL
             /\ local(j).upstream_updated_at >= page[j].updated_at
             \* and the skip does nothing but fill an empty collection_id
             /\ page[j].id \notin g.fetched \ f.fetched
             /\ \E r \in content' : r = [local(j) EXCEPT !.collection_id = r.collection_id]
             /\ {v \in content_vec' : v.content_id = local(j).id}
                   = {v \in content_vec : v.content_id = local(j).id}
             /\ \A n \in (Len(sync_log) + 1)..Len(sync_log') :
                   sync_log'[n].upstream_doc_id # page[j].id
       /\ stop <= Len(page)
          => /\ stop \in AboveCheckpoint(page, i0, f.last_pull_at)
             /\ g.local_id = local(stop).id
             /\ local(stop).id # 0
                => \/ local(stop).upstream_updated_at = NULL
                   \/ local(stop).upstream_updated_at < page[stop].updated_at

\* the step writes the document an update was classified for: the row keeps its
\* id and takes the fetched content and timestamp, its vector is replaced, no
\* row is added, and sync_log gets an 'update' entry
UpdatesInPlace ==
    LET f == call["t1"]
    IN /\ {r.id : r \in content'} = {r.id : r \in content}
       /\ Cardinality(content') = Cardinality(content)
       /\ seq' = seq
       /\ \E r \in content' : /\ r.id = f.local_id
                              /\ r.upstream_doc_id = f.full_doc.id
                              /\ r.content = f.full_doc.content
                              /\ r.upstream_updated_at = f.full_doc.updated_at
       /\ {v \in content_vec' : v.content_id = f.local_id}
             = {[content_id |-> f.local_id, embedding |-> Embed(f.full_doc.content)]}
       /\ Len(sync_log') = Len(sync_log) + 1
       /\ sync_log'[Len(sync_log')].operation = "update"
       /\ sync_log'[Len(sync_log')].upstream_doc_id = f.full_doc.id

\* C30: a listed document above the checkpoint that has a local row is fetched
\* for an update if and only if the row's upstream_updated_at is null or older
\* than the listed timestamp; otherwise it is skipped, which adds 1 to skipped
\* and causes no get_document, no embed, no change of the row's content or
\* vector and no sync_log entry; and an update rewrites the row it was
\* classified for, under the same id, without adding a row
C30_UpdateOrSkip ==
    [][/\ (\E has_more \in BOOLEAN : ListDone("t1", has_more))
          => ClassifiesFrom(PageDocuments(call["t1"].prov, call["t1"].coll, PageLimit,
                                          call["t1"].offset), 1)
       /\ (GetFail("t1") \/ EmbedFail("t1") \/ EmbedDone("t1"))
          => ClassifiesFrom(call["t1"].page, call["t1"].idx + 1)
       /\ (EmbedDone("t1") /\ call["t1"].local_id # 0) => UpdatesInPlace]_vars

\* a pass has returned that skipped a document and updated another, creating none
C30_Witness ==
    /\ call["t1"].pc = "idle"
    /\ Returned("t1").has_result
    /\ Returned("t1").skipped > 0
    /\ Returned("t1").updated > 0
    /\ Returned("t1").created = 0
    /\ Returned("t1").errors = <<>>
    /\ Cardinality(content) = seq

----------------------------------------------------------------------------
(* properties of the collection backfill (SpecPull) *)

\* the step goes through page from position i0 on: every row without
\* collection_id it comes to, whether it passes it (skip) or stops at it for
\* get_document (update), has the collection of the pass afterwards and is
\* otherwise as before
BackfillsFrom(page, i0) ==
    LET f == call["t1"]
        g == call'["t1"]
        stop == IF g.pc = "get" /\ g.offset = f.offset THEN g.idx ELSE Len(page) + 1
        examined == {j \in AboveCheckpoint(page, i0, f.last_pull_at) : j <= stop}
        local(j) == SelectByUpstreamDocId(content, page[j].id)
    IN \A j \in examined :
          (local(j).id # 0 /\ local(j).collection_id = NoText)
          => [local(j) EXCEPT !.collection_id = f.coll] \in content'

\* the counters of the pass of "t1" after the step
CountedAfter ==
    IF call'["t1"].pc = "idle"
    THEN call'["t1"].ret.created + call'["t1"].ret.updated
    ELSE call'["t1"].created + call'["t1"].updated

----------------------------------------------------------------------------
(* properties of the sync log (SpecResync) *)

\* the created and updated counters of the pass frame t runs, after the step;
\* when the step ends the pass they are read from the result it returns
CreatedAfter(t) ==
    IF call'[t].pc # "idle" /\ call'[t].started = call[t].started /\ call'[t].prov = call[t].prov
          /\ call'[t].coll = call[t].coll /\ resync'.attempts = resync.attempts
    THEN call'[t].created
    ELSE IF t = ResyncTask THEN resync'.attempts[Len(resync.attempts) + 1].created
    ELSE call'[t].ret.created

UpdatedAfter(t) ==
    IF call'[t].pc # "idle" /\ call'[t].started = call[t].started /\ call'[t].prov = call[t].prov
          /\ call'[t].coll = call[t].coll /\ resync'.attempts = resync.attempts
    THEN call'[t].updated
    ELSE IF t = ResyncTask THEN resync'.attempts[Len(resync.attempts) + 1].updated
    ELSE call'[t].ret.updated

\* the step appends exactly the entry e to the sync log
Appends(e) == sync_log' = Append(sync_log, e)

\* C32, as stated: the sync log only grows, except where full_resync wipes it;
\* a step of a pass appends an entry exactly when it creates or updates a
\* record and raises created or updated by one, and the entry carries 'create'
\* or 'update' accordingly, the upstream id of the document written and the
\* collection of the pass; a step that skips documents or records a failure
\* appends nothing.  A pass that is in flight when full_resync wipes the store
\* logs 'update' for a row that is gone.
C32_SyncLogMatchesOperations ==
    [][/\ (\E collection_ids \in {<<"A">>, <<"B", "A">>} : FullResync(collection_ids))
          \/ sync_log' = sync_log
          \/ (Len(sync_log') = Len(sync_log) + 1
                /\ SubSeq(sync_log', 1, Len(sync_log)) = sync_log)
       /\ \A t \in {"t1", ResyncTask} :
             Pass(t)
             => LET dc == CreatedAfter(t) - call[t].created
                    du == UpdatedAfter(t) - call[t].updated
                    doc_id == call[t].page[call[t].idx].id
                IN \/ (dc = 0 /\ du = 0 /\ sync_log' = sync_log)
                   \/ /\ EmbedDone(t)
                      /\ dc = 1 /\ du = 0
                      /\ \E r \in content' \ content : r.upstream_doc_id = doc_id
                      /\ Appends([collection_id |-> call[t].coll, operation |-> "create",
                                  upstream_doc_id |-> doc_id])
                   \/ /\ EmbedDone(t)
                      /\ dc = 0 /\ du = 1
                      /\ \E r \in content' : /\ r.id = call[t].local_id
                                             /\ r.upstream_doc_id = doc_id
                      /\ Appends([collection_id |-> call[t].coll, operation |-> "update",
                                  upstream_doc_id |-> doc_id])]_vars

----------------------------------------------------------------------------
(* properties of the writes of the reconciler (SpecPull) *)

\* C33, as stated: a step of pull_from_upstream (here called directly, without
\* sync_collection around it) changes the status of no sync_state row; beside
\* the collection's last_pull_at it writes content, content_vec and sync_log
\* only.  The checkpoint write of the reconciler is an INSERT OR REPLACE that
\* sets status 'idle'.
C33_ReconcilerLeavesStatus ==
    [][(Pass("t1") /\ call["t1"].via = "direct")
       => /\ \A c \in Collections : sync_state'[c].status = sync_state[c].status
          /\ \A c \in Collections \ {call["t1"].coll} : sync_state'[c] = sync_state[c]
          /\ UNCHANGED <<tags, content_tags, tag_seq>>]_vars

----------------------------------------------------------------------------
(* properties of the order of equal scores in hybrid_search (SpecSearch) *)

\* the place of a candidate in the order of retrieval: the rows of the vector
\* retrieval as they came, then the rows only the keyword retrieval found, as
\* they came
RetrievalPlace(id) ==
    IF \E i \in DOMAIN Retrieved.vec : Retrieved.vec[i].id = id
    THEN CHOOSE i \in DOMAIN Retrieved.vec : Retrieved.vec[i].id = id
    ELSE Len(Retrieved.vec) + (CHOOSE i \in DOMAIN Retrieved.fts : Retrieved.fts[i].id = id)

\* C34: of two results with the same combined score the one that comes first
\* in the order of retrieval (vector rows by ascending distance, then
\* keyword-only rows by rank) is returned first
C34_TiesFollowRetrievalOrder ==
    search.returned
    => \A i, j \in DOMAIN search.results :
          (i < j /\ search.results[i].score = search.results[j].score)
          => RetrievalPlace(search.results[i].id) < RetrievalPlace(search.results[j].id)

\* a row found by the vector retrieval only and a row found by the keyword
\* retrieval only have the same score and are both returned
C34_Witness ==
    /\ search.returned
    /\ \E i, j \in DOMAIN search.results :
          /\ i < j
          /\ search.results[i].score = search.results[j].score
          /\ search.results[i].fts_score = 0
          /\ search.results[j].vec_score = 0

----------------------------------------------------------------------------
(* properties of the 'syncing' mark (SpecLoop) *)

\* C35, as stated: a collection is 'syncing' only while a sync_collection call
\* for it is in flight.  The cancellation that stop() issues after its timeout
\* ends the call without the status being written.
C35_NoStuckLock ==
    \A c \in Collections :
        sync_state[c].status = "syncing"
        => \E t \in Frames : InPull(t) /\ call[t].coll = c

----------------------------------------------------------------------------
(* properties of the exclusion of passes next to full_resync (SpecResync) *)

\* C36, as stated: no collection has two reconciler passes in flight.  The
\* wipe of full_resync deletes the 'syncing' row of a pass in flight, and the
\* sync_collection call full_resync then makes for the collection is let in.
C36_OnePassPerCollection ==
    \A c \in Collections :
        Cardinality({t \in Frames : InPull(t) /\ call[t].coll = c}) <= 1

----------------------------------------------------------------------------
(* properties of the stored checkpoint over time (Spec) *)

\* C37, as stated: a last_pull_at that sync_state holds for a collection is
\* never replaced by null or by a smaller value (Spec has no full_resync, so no
\* wipe).  sync_collection marks the collection with INSERT OR REPLACE, which
\* leaves last_pull_at null.
C37_CheckpointNeverRegresses ==
    [][\A c \in Collections :
          sync_state[c].last_pull_at # NULL
          => /\ sync_state'[c].last_pull_at # NULL
             /\ sync_state'[c].last_pull_at >= sync_state[c].last_pull_at]_vars

----------------------------------------------------------------------------
(* properties of the status a round of the background loop leaves (SpecLoop) *)

\* the round of task l has made its call for the last provider of collection
\* c, and that call is no longer in flight
AttemptsOver(l, c) ==
    /\ \E i \in DOMAIN loops[l].attempts : loops[l].attempts[i] = <<c, Registry[Len(Registry)]>>
    /\ ~(InPull(l) /\ call[l].coll = c)

\* C38, as stated: when a round of the background loop has finished the
\* provider attempts of a collection, and the pass of one of them collected
\* errors, the collection is in status 'error' with a message.  The pass of a
\* later provider that collects no error writes 'idle' over it.
C38_ErrorsNotMasked ==
    \A l \in LoopIds : \A c \in loops[l].errored :
        (loops[l].pc \in {"sync", "wait"} /\ AttemptsOver(l, c))
        => /\ sync_state[c].status = "error"
           /\ sync_state[c].error_message # <<>>

----------------------------------------------------------------------------
(* properties of the paging of a pass (SpecPull) *)

LastRequested(f) == f.requested[Len(f.requested)]

\* the offsets a pass has asked for: 0, one page size, two page sizes, ...
RequestedInSteps(f) == \A i \in DOMAIN f.requested : f.requested[i] = (i - 1) * PageLimit

\* every page asked for after the first follows a page that held documents
RequestedWithinListing(f) ==
    \A i \in DOMAIN f.requested :
        i > 1 => f.requested[i - 1] < Len(Listing(f.prov, f.coll))

\* the page the pass of frame t is at
PageAt(t) == PageDocuments(call[t].prov, call[t].coll, PageLimit, call[t].offset)

\* the page the pass of frame t is at holds a document at or below the checkpoint
StopsAt(t) ==
    \E k \in DOMAIN PageAt(t) : EarlyTermination(call[t].last_pull_at, PageAt(t)[k].updated_at)

\* the page the pass of frame t is at came, or comes in this step, with has_more = false
NoMore(t) ==
    \/ ListDone(t, FALSE)
    \/ (call[t].pc \in {"get", "embed"} /\ ~call[t].has_more)

\* in this step the pass of frame t asks for a further page
Requests(t) ==
    /\ InPull(t) /\ call'[t].pc = "list"
    /\ Len(call'[t].requested) = Len(call[t].requested) + 1

\* in this step the pass of frame t ends
Ends(t) == InPull(t) /\ call'[t].pc = "idle"

\* how far the pass of frame f has come: pages, then documents of the page,
\* then the calls for the document
Progress(f) ==
    f.offset * 3 * (PageLimit + 1) + f.idx * 3
    + (CASE f.pc = "list" -> 0 [] f.pc = "get" -> 1 [] OTHER -> 2)

\* no pass is further than the last call for the last document of the page
\* that follows the end of the listing
ProgressBound(f) == (Len(Listing(f.prov, f.coll)) + PageLimit) * 3 * (PageLimit + 1)

\* C39: a pass over a finite listing whose calls return ends: every call that
\* returns or raises either ends the pass or takes it further, and no pass
\* goes further than the end of its listing.  The offsets it
\* asks for are 0, PageLimit, 2 * PageLimit, ..., each exactly one page size
\* beyond the one before and none twice, and none follows a page beyond the end
\* of the listing.  It asks for a further page only after a page that held
\* documents, none of them at or below the checkpoint, that came with has_more
\* true and without error; it ends only on a page error, an empty page,
\* has_more = false or a document at or below the checkpoint; and a page error
\* or an empty page ends it at once.
C39_PassTerminates ==
    /\ [](\A t \in Frames :
            /\ InPull(t) => /\ call[t].requested # <<>>
                            /\ LastRequested(call[t]) = call[t].offset
                            /\ RequestedInSteps(call[t])
                            /\ RequestedWithinListing(call[t])
            /\ Returned(t).has_result => /\ RequestedInSteps(Returned(t))
                                         /\ RequestedWithinListing(Returned(t)))
    /\ [][\A t \in Frames :
            /\ Requests(t) => /\ LastRequested(call'[t]) = LastRequested(call[t]) + PageLimit
                              /\ PageAt(t) # <<>>
                              /\ ~StopsAt(t) /\ ~NoMore(t) /\ ~ListFail(t)
            /\ Ends(t) => ListFail(t) \/ PageAt(t) = <<>> \/ NoMore(t) \/ StopsAt(t)
            /\ (InPull(t) /\ ~Requests(t) /\ ~Ends(t))
                  => call'[t].requested = call[t].requested
            /\ (call[t].pc = "list" /\ (ListFail(t) \/ (PageAt(t) = <<>> /\ ListDone(t, TRUE))))
                  => Ends(t)]_vars
    /\ [](\A t \in Frames : InPull(t) => Progress(call[t]) < ProgressBound(call[t]))
    /\ [][\A t \in Frames :
            (InPull(t) /\ call'[t] # call[t])
            => Ends(t) \/ (InPull(t)' /\ Progress(call'[t]) > Progress(call[t]))]_vars

\* a pass has come back that asked for three pages, none of which failed: the
\* second came with has_more true and the third was empty
C39_Witness ==
    \E t \in Frames :
        /\ Returned(t).has_result
        /\ Len(Returned(t).requested) = 3
        /\ Returned(t).failures = <<>>
        /\ Returned(t).errors = <<>>

====
